---- MODULE Spec2Model ----
(***************************************************************************)
(* Concurrent multi-object extraction (llm_extractor/extractor.py):        *)
(* extract_objects fans one extract_object run per target out over a       *)
(* ThreadPoolExecutor and collects the futures as they complete;           *)
(* extract_object drives one target through the retry loop.                *)
(*                                                                         *)
(* Optional values (Python None / value) are sequences of length <= 1:     *)
(* None is <<>> and a value v is <<v>>.  Costs are integers (cost units).  *)
(***************************************************************************)
EXTENDS Integers, Sequences, FiniteSets, TLC

VARIABLES
    logging,     \* _LOGGING_CONFIGURED, the root logger's handlers, each thread's place in setup_logging
    settings,    \* the key/value lookup: os.environ, the YAML file, the key asked for, what get_config gave
    doc,         \* the Document: its file and its lazily filled _text_data, _image_data
    messages,    \* per target: what _build_messages has put together, and the accessors it read
    config,      \* ExtractionConfig: max_retries, parallel_requests, calculate_costs, file_input_modes
    objects,     \* objects_to_extract.objects: sequence of [name, kind]
    mock,        \* the model collaborator: <<>> (any response) or <<m>>, a deterministic mock
    submitted,   \* number of targets already handed to executor.submit
    pc,          \* per target: position of its worker run
    attempt,     \* per target: loop variable of the retry loop
    invocations, \* per target: number of model.invoke calls made
    allRaised,   \* per target: every model.invoke call made so far raised
    last,        \* per target: last_input_tokens, last_output_tokens, last_cost, last_response_raw_payload
    last_error_msg, \* per target: last_error_msg
    got,         \* per target: what the latest model.invoke call gave, None before it
    responded,   \* per target: the latest response that reached the saving of last_*
    lookup,      \* per target: the cost lookups of the latest cost resolution (requests, sleeps)
    sleep_s,     \* per target: sleep_s while the run sleeps in backoff, else None
    fut,         \* per target: the future's outcome, None while not done
    collected,   \* targets whose future as_completed has already yielded
    results,     \* the dict results: name -> ExtractionResult
    ret          \* the ExtractionResults returned by extract_objects, None before the return

vars == <<logging, settings, doc, messages, config, objects, mock, submitted, pc, attempt, invocations, allRaised,
          last, last_error_msg, got, responded, lookup, sleep_s, fut, collected, results,
          ret>>

----------------------------------------------------------------------------
\* Bounds of the model.
MaxTargets == 2
MaxRetries == 2
MaxLen == 4
BackoffRetries == 6
MaxConfig == 2
MaxThreads == 2
MaxCalls == 3

None == <<>>
Some(v) == <<v>>

Max(a, b) == IF a >= b THEN a ELSE b
Min(a, b) == IF a <= b THEN a ELSE b

\* Target names; two targets may carry the same name.  Names are opaque
\* keys, so the lists are drawn up to renaming: target i carries one of the
\* names of the targets before it or the next unused name.
AllNames == <<"a", "b", "c", "d">>
Names == {AllNames[k] : k \in 1..Min(MaxTargets, Len(AllNames))}
UpToRenaming(objs) ==
    \A i \in DOMAIN objs :
        \E k \in 1..Min(i, Len(AllNames)) :
            /\ objs[i].name = AllNames[k]
            /\ k = 1 \/ \E j \in 1..(i - 1) : objs[j].name = AllNames[k - 1]

\* Target variants: a declared one (TableToExtract; StringToExtract differs
\* in the prompt text only) and one that get_prompt rejects.
Kinds == {"table", "other"}

\* Configured values; 0 stands for a value that is zero or unset (falsy).
RetryChoices == 0..MaxRetries
ParallelChoices == {0, 1, 4}

----------------------------------------------------------------------------
\* Strings are sequences of characters over a four-letter alphabet: the
\* backtick ("B"), "J" for the letters json, " " for white space and "x" for
\* any other character.  A string is JSON text iff it is a non-empty run of "x".
Chars == {"B", "J", " ", "x"}
Fence == <<"B", "B", "B">>
JsonFence == <<"B", "B", "B", "J">>

\* str.replace(pat, ""): the occurrences of pat are removed left to right.
RECURSIVE Remove(_, _)
Remove(s, pat) ==
    IF Len(s) < Len(pat) THEN s
    ELSE IF SubSeq(s, 1, Len(pat)) = pat
         THEN Remove(SubSeq(s, Len(pat) + 1, Len(s)), pat)
         ELSE <<Head(s)>> \o Remove(Tail(s), pat)

\* str.strip()
RECURSIVE Strip(_)
Strip(s) ==
    IF s = <<>> THEN s
    ELSE IF Head(s) = " " THEN Strip(Tail(s))
    ELSE IF s[Len(s)] = " " THEN Strip(SubSeq(s, 1, Len(s) - 1))
    ELSE s

\* json.loads(s) succeeds; its value is then the text itself.
JsonLoads(s) == s # <<>> /\ \A k \in DOMAIN s : s[k] = "x"

\* A usage block (usage_metadata, or token_usage of response_metadata):
\* absent, a dict with some of the four fields, or a value of another shape.
AbsentBlock ==
    [shape |-> "absent", input_tokens |-> None, output_tokens |-> None,
     prompt_tokens |-> None, completion_tokens |-> None]
OtherBlock ==
    [shape |-> "other", input_tokens |-> None, output_tokens |-> None,
     prompt_tokens |-> None, completion_tokens |-> None]
DictBlock(it, ot, pt, ct) ==
    [shape |-> "dict", input_tokens |-> it, output_tokens |-> ot,
     prompt_tokens |-> pt, completion_tokens |-> ct]

\* Answers of the generation endpoint to one GET: a transport error, a
\* status that is not ok (404 or another), or an ok answer whose body is not
\* JSON, carries no data.total_cost, carries a number, or carries a
\* total_cost that is not a number (the value <<0, "str">>).
NotANumber == <<0, "str">>
TransportError == [status |-> "error", body |-> "none", total_cost |-> None]
NotFound == [status |-> "404", body |-> "none", total_cost |-> None]
ServerError == [status |-> "500", body |-> "none", total_cost |-> None]
OkNotJson == [status |-> "ok", body |-> "notjson", total_cost |-> None]
OkNoCost == [status |-> "ok", body |-> "nocost", total_cost |-> None]
OkBadType == [status |-> "ok", body |-> "badtype", total_cost |-> NotANumber]
OkCost(c) == [status |-> "ok", body |-> "cost", total_cost |-> Some(c)]

\* Responses of the model collaborator.  kind "raise": model.invoke raises.
\* kind "text": it returns content with its usage_metadata block, the
\* token_usage block of its response_metadata, a generation id or none, and
\* the answers the generation endpoint gives to the lookups of that id.
\* Every response has a name, a sequence of strings, by which the state
\* refers to it.
RaiseResp ==
    [name |-> <<"raise">>, kind |-> "raise", content |-> <<>>,
     usage_metadata |-> AbsentBlock, token_usage |-> AbsentBlock,
     gen_id |-> FALSE, answers |-> <<>>]
TextResp(name, content, um, tu, id, answers) ==
    [name |-> name, kind |-> "text", content |-> content, usage_metadata |-> um,
     token_usage |-> tu, gen_id |-> id, answers |-> answers]
BadMeta ==
    TextResp(<<"plain", "bad">>, <<"J">>, DictBlock(Some(3), Some(1), None, None),
             AbsentBlock, TRUE, <<OkCost(2)>>)
OkNoMeta ==
    TextResp(<<"plain", "ok0">>, <<"x">>, AbsentBlock, AbsentBlock, FALSE, <<>>)
OkMeta ==
    TextResp(<<"plain", "ok1">>, <<"x", "x">>, DictBlock(Some(2), Some(1), None, None),
             AbsentBlock, TRUE, <<OkCost(1)>>)
OkPartial ==
    TextResp(<<"plain", "ok2">>, <<"x", "x", "x">>,
             DictBlock(Some(5), None, None, None), AbsentBlock, FALSE, <<>>)

FailResponses == {RaiseResp, BadMeta}
OkResponses == {OkNoMeta, OkMeta, OkPartial}
Responses == FailResponses \cup OkResponses

----------------------------------------------------------------------------
\* A field of the config holds None: c.none names the fields that do (a
\* config without c.none has a number in each).
IsNone(c, f) == "none" \in DOMAIN c /\ f \in c.none

\* v or 1: None and 0 are falsy.
OrOne(c, f) == IF IsNone(c, f) \/ c[f] = 0 THEN 1 ELSE c[f]

\* Faulty variant: a falsy max_retries falls back to the default of the
\* config class, 3.
MaxRetriesOf_OrDefault(c) ==
    Max(1, IF IsNone(c, "max_retries") \/ c.max_retries = 0 THEN 3 ELSE c.max_retries)

\* extract_object: max_retries = max(1, int(config.max_retries or 1))
MaxRetriesOf(c) == Max(1, OrOne(c, "max_retries"))

\* extract_objects: max_workers = max(1, int(config.parallel_requests or 1))
MaxWorkersOf(c) == Max(1, OrOne(c, "parallel_requests"))

\* Faulty variant: every variant is given a prompt.
GetPromptRaises_Never(obj) == FALSE

\* get_prompt raises ValueError for a target that is neither declared variant.
GetPromptRaises(obj) == obj.kind \notin {"table", "string"}

\* Faulty variant: only the bare fence is removed.
CleanResponseContent_BareFenceOnly(r) == Strip(Remove(r.content, Fence))

\* _clean_response_content
CleanResponseContent(r) == Strip(Remove(Remove(r.content, JsonFence), Fence))

\* The Python expression (a or b) on optional numbers: a unless it is None or 0.
Or(a, b) == IF a # None /\ a # Some(0) THEN a ELSE b

\* _parse_token_usage: the primary block, then token_usage for what is still
\* None; tu.get raises when token_usage is consulted and is not a dict.
ParseTokenUsage(r) ==
    LET um == r.usage_metadata
        tu == r.token_usage
        i1 == IF um.shape = "dict" THEN Or(um.input_tokens, um.prompt_tokens) ELSE None
        o1 == IF um.shape = "dict" THEN Or(um.output_tokens, um.completion_tokens)
              ELSE None
        consult == i1 = None \/ o1 = None
    IN [raises |-> consult /\ tu.shape = "other",
        input_tokens |-> IF consult THEN Or(Or(i1, tu.input_tokens), tu.prompt_tokens)
                         ELSE i1,
        output_tokens |-> IF consult
                          THEN Or(Or(o1, tu.output_tokens), tu.completion_tokens)
                          ELSE o1]

\* delays = [0.5, 1.0, 2.0], in tenths of a second.
Delays == <<5, 10, 20>>

\* Faulty variant: a 404 is not retried.
CostLoop_NoRetry(answers, k) ==
    LET a == answers[k]
    IN [cost |-> IF a.status = "ok" /\ a.body # "notjson" THEN a.total_cost ELSE None,
        generation_stats |-> IF a.status = "ok" /\ a.body # "notjson"
                             THEN Some(a.body) ELSE None,
        requests |-> k, sleeps |-> <<>>]

\* Faulty variant: the delay is slept after every 404, the last one included.
RECURSIVE CostLoop_SleepsAfterLast(_, _)
CostLoop_SleepsAfterLast(answers, k) ==
    LET a == answers[k]
        stop(cost, stats, slept) ==
            [cost |-> cost, generation_stats |-> stats, requests |-> k,
             sleeps |-> SubSeq(Delays, 1, slept)]
    IN IF a.status = "error" THEN stop(None, None, k - 1)
       ELSE IF a.status = "ok"
            THEN IF a.body = "notjson" THEN stop(None, None, k - 1)
                 ELSE stop(a.total_cost, Some(a.body), k - 1)
       ELSE IF a.status = "404"
            THEN IF k < Len(Delays) THEN CostLoop_SleepsAfterLast(answers, k + 1)
                 ELSE stop(None, None, k)
       ELSE stop(None, None, k - 1)

\* The lookup loop of _fetch_generation_cost from lookup k on: the cost, the
\* generation stats, the number of GETs issued and the delays slept.
RECURSIVE CostLoop(_, _)
CostLoop(answers, k) ==
    LET a == answers[k]
        stop(cost, stats) ==
            [cost |-> cost, generation_stats |-> stats, requests |-> k,
             sleeps |-> SubSeq(Delays, 1, k - 1)]
    IN IF a.status = "error" THEN stop(None, None)
       ELSE IF a.status = "ok"
            THEN IF a.body = "notjson" THEN stop(None, None)
                 ELSE stop(a.total_cost, Some(a.body))
       ELSE IF a.status = "404" /\ k < Len(Delays) THEN CostLoop(answers, k + 1)
       ELSE stop(None, None)

NoLookup == [cost |-> None, generation_stats |-> None, requests |-> 0, sleeps |-> <<>>]

\* Faulty variant: the lookup is made whenever there is a generation id.
CostResolution_IgnoresFlag(c, r) ==
    IF r.gen_id THEN CostLoop(r.answers, 1) ELSE NoLookup

\* _fetch_generation_cost: a no-op unless calculate_costs and a generation id.
CostResolution(c, r) ==
    IF c.calculate_costs /\ r.gen_id THEN CostLoop(r.answers, 1) ELSE NoLookup

\* The network activity of a cost resolution: GETs issued, delays slept.
NoLookups == [requests |-> 0, sleeps |-> <<>>]
LookupsOf(c, r) ==
    [requests |-> CostResolution(c, r).requests, sleeps |-> CostResolution(c, r).sleeps]

\* The cost _fetch_generation_cost returns.
FetchGenerationCost(c, r) == CostResolution(c, r).cost

\* response_raw_payload: the fields of the response, held by the name of the
\* response they are read from, and, if any, the generation stats.
PayloadOf(c, r) ==
    [response |-> r.name,
     generation_stats |-> CostResolution(c, r).generation_stats]

\* ExtractionResult(...) validates its fields: cost is Optional[float].
ValidResult(res) == Len(res.cost) <= 1

NoLast == [input_tokens |-> None, output_tokens |-> None, cost |-> None,
           response_raw |-> None]

\* The last_* variables after an attempt whose model call returned r.
LastOf(c, r) ==
    [input_tokens |-> ParseTokenUsage(r).input_tokens,
     output_tokens |-> ParseTokenUsage(r).output_tokens,
     cost |-> FetchGenerationCost(c, r), response_raw |-> Some(PayloadOf(c, r))]

\* The ExtractionResult of a successful attempt.
SuccessResult(c, r) ==
    [extracted_data |-> Some(CleanResponseContent(r)),
     response_raw |-> Some(PayloadOf(c, r)),
     success |-> TRUE, message |-> "Extraction successful",
     input_tokens |-> ParseTokenUsage(r).input_tokens,
     output_tokens |-> ParseTokenUsage(r).output_tokens,
     cost |-> FetchGenerationCost(c, r)]

\* The ExtractionResult returned after the loop: all attempts failed.
FailedResult(l, msg) ==
    [extracted_data |-> None, response_raw |-> l.response_raw,
     success |-> FALSE, message |-> msg,
     input_tokens |-> l.input_tokens, output_tokens |-> l.output_tokens,
     cost |-> l.cost]

\* Faulty variant: the text of the exception is dropped.
FaultResult_NoMessage(msg) ==
    [extracted_data |-> None, response_raw |-> None,
     success |-> FALSE, message |-> "",
     input_tokens |-> None, output_tokens |-> None, cost |-> None]

\* The ExtractionResult extract_objects stores for a future that raised.
FaultResult(msg) ==
    [extracted_data |-> None, response_raw |-> None,
     success |-> FALSE, message |-> msg,
     input_tokens |-> None, output_tokens |-> None, cost |-> None]

----------------------------------------------------------------------------
\* llm_extractor/logging_config.py.  The threads that call setup_logging,
\* each up to MaxCalls times.
LogThreads == 1..MaxThreads

\* At import: the flag is False, the root logger has no handler of this
\* module, no thread is inside setup_logging.  file_ok tells whether the
\* log directory and file can be set up.
Logging(ok) ==
    [configured |-> FALSE, handlers |-> <<>>, file_ok |-> ok,
     at |-> [t \in LogThreads |-> "out"], calls |-> [t \in LogThreads |-> 0]]
NoLogging == Logging(TRUE)

----------------------------------------------------------------------------
\* llm_extractor/config.py.  The YAML file, once loaded, is a tree of dicts;
\* it is written as the sequence of its leaves in document order, each with
\* its path of keys from the root and its value: "null" for a YAML null,
\* "v" for any other value.  A key of the file may itself contain a dot.
KeyNames == {"A", "B", "A.B"}
Paths == UNION {[1..n -> KeyNames] : n \in 1..MaxConfig}
Leaves == [path : Paths, value : {"null", "v"}]

IsPrefix(p, q) == Len(p) <= Len(q) /\ SubSeq(q, 1, Len(p)) = p

\* The leaves of a tree: no path runs through a leaf, and the leaves below
\* one key stand together (a dict holds a key once).
WellFormed(t) ==
    /\ \A i, j \in DOMAIN t : i # j => ~IsPrefix(t[i].path, t[j].path)
    /\ \A i, j, k \in DOMAIN t :
          (i < j /\ j < k) =>
              \A n \in 1..Len(t[i].path) :
                  IsPrefix(SubSeq(t[i].path, 1, n), t[k].path) =>
                      IsPrefix(SubSeq(t[i].path, 1, n), t[j].path)
Trees == {t \in UNION {[1..n -> Leaves] : n \in 0..MaxConfig} : WellFormed(t)}

\* The file: missing, not parsable as YAML, or loaded as a tree.
ConfigFiles ==
    {[state |-> "missing", data |-> <<>>], [state |-> "unparsable", data |-> <<>>]}
    \cup {[state |-> "loaded", data |-> t] : t \in Trees}

\* The keys asked for, each with its split at the dots.
LookupKeys ==
    {[name |-> "A", parts |-> <<"A">>], [name |-> "B", parts |-> <<"B">>],
     [name |-> "A.B", parts |-> <<"A", "B">>]}

\* os.environ.get(key): unset, or set to the empty string or to another.
EnvValues == {None, Some(""), Some("e")}

\* Outside a call of get_config: nothing asked, nothing given.
NoSettings ==
    [environ |-> None, file |-> [state |-> "loaded", data |-> <<>>],
     key |-> [name |-> "A", parts |-> <<"A">>], value |-> None]

\* A node stands at path p of the tree t (`part in cur`), and the value
\* there as get_config sees it: None for a null, else the node at p.
HasNode(t, p) == \E k \in DOMAIN t : IsPrefix(p, t[k].path)
IsDict(t, p) == \E k \in DOMAIN t : IsPrefix(p, t[k].path) /\ Len(t[k].path) > Len(p)
ValueAt(t, p) ==
    IF \E k \in DOMAIN t : t[k].path = p /\ t[k].value = "null" THEN None ELSE Some(p)

\* _get_by_path(config, key), from the node at cur on.
RECURSIVE GetByPath(_, _, _)
GetByPath(t, cur, parts) ==
    IF parts = <<>> THEN ValueAt(t, cur)
    ELSE IF HasNode(t, cur \o <<Head(parts)>>)
         THEN GetByPath(t, cur \o <<Head(parts)>>, Tail(parts))
         ELSE None

\* _deep_find_key(data, target) on the node at p: the value of the key
\* target of this dict if it has it; else the first value that is not None
\* among the searches of its values, taken in order (FirstFound, from leaf k
\* of the tree on).
RECURSIVE DeepFindKey(_, _, _)
RECURSIVE FirstFound(_, _, _, _)
DeepFindKey(t, p, target) ==
    IF ~IsDict(t, p) THEN None
    ELSE IF HasNode(t, p \o <<target>>) THEN ValueAt(t, p \o <<target>>)
    ELSE FirstFound(t, p, target, 1)
FirstFound(t, p, target, k) ==
    IF k > Len(t) THEN None
    ELSE IF IsPrefix(p, t[k].path) /\ Len(t[k].path) > Len(p)
         THEN LET found == DeepFindKey(t, SubSeq(t[k].path, 1, Len(p) + 1), target)
              IN IF found # None THEN found ELSE FirstFound(t, p, target, k + 1)
         ELSE FirstFound(t, p, target, k + 1)

\* What a call gives: a value, None, or an exception; with the source the
\* value was taken from and, for a value of the file, the path it stands at.
Given(source, v) == [outcome |-> IF v = None THEN "none" ELSE "value",
                     source |-> source, at |-> IF v = None THEN <<>> ELSE v[1]]

\* get_config(key)
GetConfig(env, file, key) ==
    LET t == file.data
    IN IF env # None THEN [outcome |-> "value", source |-> "env", at |-> <<>>]
       ELSE IF file.state # "loaded"
            THEN [outcome |-> "raise", source |-> "file", at |-> <<>>]
       ELSE IF HasNode(t, <<key.name>>) THEN Given("top", ValueAt(t, <<key.name>>))
       ELSE IF GetByPath(t, <<>>, key.parts) # None
            THEN Given("dot", GetByPath(t, <<>>, key.parts))
       ELSE IF DeepFindKey(t, <<>>, key.name) # None
            THEN Given("deep", DeepFindKey(t, <<>>, key.name))
       ELSE Given("none", None)

----------------------------------------------------------------------------
\* FileInputMode, and config.file_input_modes (a list used for membership
\* only, hence a set); a configuration that does not set it has the default
\* [FileInputMode.FILE].
FileInputModes == {"text", "image", "file"}
ModesOf(c) == IF "file_input_modes" \in DOMAIN c THEN c.file_input_modes ELSE {"file"}

\* The files a Document is made from: the DocType of the file and what its
\* conversions do.  pdf_to_text and pdf_to_image return a value or raise;
\* decoding a text file gives its text, empty for an empty file; opening an
\* image file gives an image or fails; pil_img_to_base64 encodes the image
\* of the file or raises.  "na": the DocType has no such conversion.
Files ==
    {[file_type |-> "pdf", text_conv |-> t, image_conv |-> g[1], encodes |-> g[2]] :
        t \in {"raise", "t"}, g \in {<<"raise", FALSE>>, <<"img", FALSE>>, <<"img", TRUE>>}}
    \cup {[file_type |-> "image", text_conv |-> "na", image_conv |-> g[1], encodes |-> g[2]] :
             g \in {<<"fail", FALSE>>, <<"img", FALSE>>, <<"img", TRUE>>}}
    \cup {[file_type |-> "text", text_conv |-> t, image_conv |-> "na", encodes |-> FALSE] :
             t \in {"", "t"}}

PlainPdf == [file_type |-> "pdf", text_conv |-> "t", image_conv |-> "img", encodes |-> TRUE]

\* Document(file_path): the caches are empty; text_runs and image_runs
\* count the runs of the underlying conversions.
Document(f) ==
    [file |-> f, text_data |-> "", image_data |-> None, text_runs |-> 0, image_runs |-> 0]

\* What _build_messages has put together for a target: the text put into
\* the prompt (None if none was), the attachments in order, and the
\* accessors of the document read so far, each with the value it returned.
NoMessages == [text |-> None, attachments |-> <<>>, reads |-> <<>>]
FileOnlyMessages ==
    [text |-> None, attachments |-> <<"file">>, reads |-> << <<"binary", "bytes">> >>]

Targets == 1..Len(objects)
Terminal == {"done", "fault"}
Running == {i \in Targets : pc[i] \notin {"queued"} \cup Terminal}

----------------------------------------------------------------------------
TargetLists ==
    {objs \in UNION {[1..n -> [name : Names, kind : Kinds]] : n \in 0..MaxTargets} :
        UpToRenaming(objs)}

Configs == [max_retries : RetryChoices, parallel_requests : ParallelChoices,
            calculate_costs : BOOLEAN]

\* No call of extract_objects has started.
NotStarted ==
    /\ messages = [i \in Targets |-> NoMessages]
    /\ submitted = 0
    /\ pc = [i \in Targets |-> "queued"]
    /\ attempt = [i \in Targets |-> 0]
    /\ invocations = [i \in Targets |-> 0]
    /\ allRaised = [i \in Targets |-> TRUE]
    /\ last = [i \in Targets |-> NoLast]
    /\ last_error_msg = [i \in Targets |-> None]
    /\ got = [i \in Targets |-> None]
    /\ responded = [i \in Targets |-> None]
    /\ lookup = [i \in Targets |-> NoLookups]
    /\ sleep_s = [i \in Targets |-> None]
    /\ fut = [i \in Targets |-> None]
    /\ collected = {}
    /\ results = <<>>
    /\ ret = None

InitRun ==
    /\ logging = NoLogging
    /\ settings = NoSettings
    /\ NotStarted

Init ==
    /\ config \in Configs
    /\ objects \in TargetLists
    /\ mock = None
    /\ doc = Document(PlainPdf)
    /\ InitRun

----------------------------------------------------------------------------
\* Faulty variant: the pool takes a queued item whatever the number of busy
\* workers.
MayStart_Unbounded(i) ==
    /\ i <= submitted
    /\ pc[i] = "queued"
    /\ \A j \in 1..(i - 1) : pc[j] # "queued"

\* Faulty variant: a pool thread ends after its first work item, so that
\* only the first max_workers items are ever taken.
MayStart_NoReuse(i) ==
    /\ i <= submitted
    /\ pc[i] = "queued"
    /\ \A j \in 1..(i - 1) : pc[j] # "queued"
    /\ i <= MaxWorkersOf(config)

\* ThreadPoolExecutor: work items are taken in submission order, by at most
\* max_workers threads, each running one item to completion.
MayStart(i) ==
    /\ i <= submitted
    /\ pc[i] = "queued"
    /\ \A j \in 1..(i - 1) : pc[j] # "queued"
    /\ Cardinality(Running) < MaxWorkersOf(config)

\* A deterministic mock collaborator m: the first m.fails[i] calls for
\* target i answer m.failWith, every later call answers m.okWith.
MockResponse(m, i, k) == IF k <= m.fails[i] THEN m.failWith ELSE m.okWith

\* The shapes usage information arrives in, each with its name: no block at
\* all, a complete primary block, the legacy field names, a zero that falls
\* through to the legacy name, a token_usage fallback, and a token_usage
\* that is not a dict next to a primary block that is absent, partial or
\* complete.
UsageShapes ==
    {<<"none", AbsentBlock, AbsentBlock>>,
     <<"full", DictBlock(Some(3), Some(1), None, None), AbsentBlock>>,
     <<"legacy", DictBlock(None, None, Some(4), Some(2)), AbsentBlock>>,
     <<"zero", DictBlock(Some(0), Some(1), Some(7), None), AbsentBlock>>,
     <<"partial+tu", DictBlock(Some(5), None, None, None),
       DictBlock(Some(9), Some(6), None, None)>>,
     <<"tu-legacy", AbsentBlock, DictBlock(None, None, Some(4), Some(2))>>,
     <<"tu-other", AbsentBlock, OtherBlock>>,
     <<"partial+tu-other", DictBlock(Some(5), None, None, None), OtherBlock>>,
     <<"full+tu-other", DictBlock(Some(3), Some(1), None, None), OtherBlock>>}

\* What the generation endpoint may answer to the lookups of one id, each
\* sequence of answers with its name.
CostAnswers ==
    {<<"200", <<OkCost(1)>> >>,
     <<"404-200", <<NotFound, OkCost(1)>> >>,
     <<"404-404-200", <<NotFound, NotFound, OkCost(1)>> >>,
     <<"404-404-404", <<NotFound, NotFound, NotFound>> >>,
     <<"404-500", <<NotFound, ServerError>> >>,
     <<"500", <<ServerError>> >>,
     <<"error", <<TransportError>> >>,
     <<"404-error", <<NotFound, TransportError>> >>,
     <<"notjson", <<OkNotJson>> >>,
     <<"nocost", <<OkNoCost>> >>,
     <<"badtype", <<OkBadType>> >>,
     <<"404-404-badtype", <<NotFound, NotFound, OkBadType>> >>}

\* A rich collaborator: content that parses or does not, every usage shape
\* with and without a generation id, and every endpoint behaviour.
RichResponses ==
    {RaiseResp}
    \cup {TextResp(<<"rich", c, u[1], IF id THEN "id" ELSE "noid", "200">>,
                   <<c>>, u[2], u[3], id, <<OkCost(1)>>) :
             c \in {"x", "J"}, u \in UsageShapes, id \in BOOLEAN}
    \cup {TextResp(<<"rich", c, "full", "id", a[1]>>,
                   <<c>>, DictBlock(Some(3), Some(1), None, None), AbsentBlock,
                   TRUE, a[2]) :
             c \in {"x", "J"}, a \in CostAnswers}

\* Every content of at most MaxLen characters, and the same content wrapped
\* in a leading json fence and a trailing fence.
Contents == UNION {[1..n -> Chars] : n \in 0..MaxLen}
Wrap(c) == JsonFence \o c \o Fence
IsWrapped(s) ==
    /\ Len(s) >= Len(JsonFence) + Len(Fence)
    /\ SubSeq(s, 1, Len(JsonFence)) = JsonFence
    /\ SubSeq(s, Len(s) - Len(Fence) + 1, Len(s)) = Fence
Unwrap(s) == SubSeq(s, Len(JsonFence) + 1, Len(s) - Len(Fence))

\* A collaborator that raises or answers the content s.
FenceResp(s) == TextResp(<<"fence">> \o s, s, AbsentBlock, AbsentBlock, FALSE, <<>>)
FenceResponses(s) == {RaiseResp, FenceResp(s)}

\* The attempt that receives r passes _parse_token_usage and reaches the
\* assignments of last_* (lines 298-301).
SavesLast(r) == r.kind = "text" /\ ~ParseTokenUsage(r).raises

\* json.loads(content_str) succeeds.
Parses(r) == JsonLoads(CleanResponseContent(r))

\* One pass of the loop body (lines 269-330) over the response r: how far
\* it gets and what it leaves behind.
Attempt(c, r) ==
    [raised |-> r.kind = "raise",
     saves |-> SavesLast(r),
     parses |-> SavesLast(r) /\ Parses(r),
     valid |-> SavesLast(r) /\ Parses(r) /\ ValidResult(SuccessResult(c, r)),
     last |-> IF SavesLast(r) THEN LastOf(c, r) ELSE NoLast,
     lookups |-> IF SavesLast(r) THEN LookupsOf(c, r) ELSE NoLookups,
     result |-> IF SavesLast(r) /\ Parses(r) THEN Some(SuccessResult(c, r)) ELSE None]

\* The responses with a fixed name, by name, and their passes.
ResponseNames == {r.name : r \in Responses}
RichNames == {r.name : r \in RichResponses}
ByName ==
    [id \in ResponseNames \cup RichNames |->
        CHOOSE r \in Responses \cup RichResponses : r.name = id]
AttemptTable ==
    [cc \in BOOLEAN, id \in ResponseNames \cup RichNames |->
        Attempt([calculate_costs |-> cc], ByName[id])]

\* The response of a name.
Response(id) == IF id[1] = "fence" THEN FenceResp(Tail(id)) ELSE ByName[id]

\* The pass of the loop body over the response named id under config c.
AttemptOf(c, id) ==
    IF id[1] = "fence" THEN Attempt(c, FenceResp(Tail(id)))
    ELSE AttemptTable[c.calculate_costs, id]

\* The named response universes a collaborator may draw from.
OfferSet(m) ==
    IF m.offers = "rich" THEN RichNames
    ELSE IF m.offers = "fenced" THEN {r.name : r \in FenceResponses(m.content)}
    ELSE ResponseNames

\* The names of the responses the collaborator may give to attempt k of
\* target i.
Offered(i, k) ==
    IF mock = None THEN ResponseNames
    ELSE IF "offers" \in DOMAIN mock[1] THEN OfferSet(mock[1])
    ELSE {MockResponse(mock[1], i, k).name}

MayRespond(i, k, r) == r.name \in Offered(i, k)

\* Faulty variant: an attempt that saves nothing clears the last_* variables.
LastAfter_Cleared(i, a) == IF a.saves THEN a.last ELSE NoLast

\* The last_* variables of target i after the pass a: they are assigned
\* only when lines 298-301 are reached.
LastAfter(i, a) == IF a.saves THEN a.last ELSE last[i]

\* The latest thing model.invoke gave target i, and the latest response of
\* target i that reached the assignments of last_*.
Got(i) == Response(got[i][1])
Responded(i) == Response(responded[i][1])

\* executor.submit(extract_object, doc, obj, config) for the next target.
Submit ==
    /\ ret = None
    /\ submitted < Len(objects)
    /\ submitted' = submitted + 1
    /\ UNCHANGED <<logging, settings, got, responded, lookup, sleep_s, doc, messages, config, objects, mock, pc, attempt, invocations, allRaised,
                   last, last_error_msg, fut, collected, results, ret>>

\* A worker takes target i: extract_object builds the messages and the model.
\* An exception of get_prompt escapes extract_object and ends the future.
StartFault(i) ==
    /\ MayStart(i)
    /\ GetPromptRaises(objects[i])
    /\ pc' = [pc EXCEPT ![i] = "fault"]
    /\ fut' = [fut EXCEPT ![i] = Some([exc |-> TRUE, msg |-> "Unknown object type",
                                        result |-> None])]
    /\ UNCHANGED <<logging, settings, got, responded, lookup, sleep_s, doc, messages, config, objects, mock, submitted, attempt, invocations, allRaised,
                   last, last_error_msg, collected, results, ret>>

\* ... otherwise, under the default file_input_modes, the file is attached
\* and the retry loop starts: attempt 1 calls model.invoke.
StartInvoke(i) ==
    /\ MayStart(i)
    /\ ~GetPromptRaises(objects[i])
    /\ ModesOf(config) = {"file"}
    /\ messages' = [messages EXCEPT ![i] = FileOnlyMessages]
    /\ pc' = [pc EXCEPT ![i] = "invoking"]
    /\ attempt' = [attempt EXCEPT ![i] = 1]
    /\ invocations' = [invocations EXCEPT ![i] = @ + 1]
    /\ UNCHANGED <<logging, settings, got, responded, lookup, sleep_s, doc, config, objects, mock, submitted, allRaised, last, last_error_msg,
                   fut, collected, results, ret>>

----------------------------------------------------------------------------
\* _build_messages step by step, each access to the document in the steps
\* in which the threads of the pool may interleave.

\* The step after the text of the prompt is settled, and the step after
\* get_prompt.
AfterText(c) == IF "image" \in ModesOf(c) THEN "image" ELSE "file"
AfterPrompt(c) == IF "text" \in ModesOf(c) THEN "text" ELSE AfterText(c)

\* The accessor acc returned v to the _build_messages call of target i.
Read(m, acc, v) == [m EXCEPT !.reads = Append(@, <<acc, v>>)]

\* An exception leaves _build_messages and extract_object (line 257 is
\* outside the try of the retry loop): the future of target i ends with it.
BuildRaises(i, msg) ==
    /\ pc' = [pc EXCEPT ![i] = "fault"]
    /\ fut' = [fut EXCEPT ![i] = Some([exc |-> TRUE, msg |-> msg, result |-> None])]

\* A worker takes target i: system prompt and prompt are built (an
\* undeclared variant ends the run: StartFault).
StartBuild(i) ==
    /\ MayStart(i)
    /\ ~GetPromptRaises(objects[i])
    /\ pc' = [pc EXCEPT ![i] = AfterPrompt(config)]
    /\ UNCHANGED <<logging, settings, got, responded, lookup, sleep_s, doc, messages, config, objects, mock,
                   submitted, attempt, invocations, allRaised, last, last_error_msg,
                   fut, collected, results, ret>>

\* doc.text, up to its first return: the cache if it is truthy; the stored
\* empty text for a DocType without text conversion; else the conversion is
\* due.
TextAccess(i) ==
    /\ pc[i] = "text"
    /\ IF doc.text_data # "" \/ doc.file.file_type = "image"
       THEN /\ messages' = [messages EXCEPT ![i] =
                               [Read(@, "text", doc.text_data) EXCEPT
                                   !.text = Some(doc.text_data)]]
            /\ pc' = [pc EXCEPT ![i] = AfterText(config)]
       ELSE /\ pc' = [pc EXCEPT ![i] = "text_convert"]
            /\ messages' = messages
    /\ UNCHANGED <<logging, settings, got, responded, lookup, sleep_s, doc, config, objects, mock,
                   submitted, attempt, invocations, allRaised, last, last_error_msg,
                   fut, collected, results, ret>>

\* doc.text, the rest: pdf_to_text or the decoding runs; its exception
\* leaves the property and _build_messages (line 81); its value is stored
\* in _text_data and returned.
TextConvert(i) ==
    /\ pc[i] = "text_convert"
    /\ doc' = [doc EXCEPT !.text_runs = @ + 1,
                          !.text_data = IF doc.file.text_conv = "raise"
                                        THEN @ ELSE doc.file.text_conv]
    /\ IF doc.file.text_conv = "raise"
       THEN /\ BuildRaises(i, "Error extracting text from PDF")
            /\ messages' = messages
       ELSE /\ messages' = [messages EXCEPT ![i] =
                               [Read(@, "text", doc.file.text_conv) EXCEPT
                                   !.text = Some(doc.file.text_conv)]]
            /\ pc' = [pc EXCEPT ![i] = AfterText(config)]
            /\ fut' = fut
    /\ UNCHANGED <<logging, settings, got, responded, lookup, sleep_s, config, objects, mock,
                   submitted, attempt, invocations, allRaised, last, last_error_msg,
                   collected, results, ret>>

\* doc.image of line 86, up to its first return: the cache if it is filled;
\* None for a DocType without image conversion (the attachment is skipped);
\* else the conversion is due.
ImageAccess(i) ==
    /\ pc[i] = "image"
    /\ IF doc.image_data # None
       THEN /\ messages' = [messages EXCEPT ![i] = Read(@, "image", doc.image_data[1])]
            /\ pc' = [pc EXCEPT ![i] = "encode"]
       ELSE IF doc.file.file_type = "text"
       THEN /\ messages' = [messages EXCEPT ![i] = Read(@, "image", "None")]
            /\ pc' = [pc EXCEPT ![i] = "file"]
       ELSE /\ pc' = [pc EXCEPT ![i] = "image_convert"]
            /\ messages' = messages
    /\ UNCHANGED <<logging, settings, got, responded, lookup, sleep_s, doc, config, objects, mock,
                   submitted, attempt, invocations, allRaised, last, last_error_msg,
                   fut, collected, results, ret>>

\* doc.image of line 86, the rest: pdf_to_image runs and its exception
\* leaves the property and _build_messages (line 86 is outside the try of
\* line 87); opening an image file runs and its failure is stored as None.
ImageConvert(i) ==
    /\ pc[i] = "image_convert"
    /\ doc' = [doc EXCEPT !.image_runs = @ + 1,
                          !.image_data = IF doc.file.image_conv = "img"
                                         THEN Some("img") ELSE @]
    /\ IF doc.file.image_conv = "raise"
       THEN /\ BuildRaises(i, "Error converting PDF to image")
            /\ messages' = messages
       ELSE /\ fut' = fut
            /\ IF doc.file.image_conv = "img"
               THEN /\ messages' = [messages EXCEPT ![i] = Read(@, "image", "img")]
                    /\ pc' = [pc EXCEPT ![i] = "encode"]
               ELSE /\ messages' = [messages EXCEPT ![i] = Read(@, "image", "None")]
                    /\ pc' = [pc EXCEPT ![i] = "file"]
    /\ UNCHANGED <<logging, settings, got, responded, lookup, sleep_s, config, objects, mock,
                   submitted, attempt, invocations, allRaised, last, last_error_msg,
                   collected, results, ret>>

\* Faulty variant: the image converted for the encoding is stored back into
\* the document.
Encode_StoresConverted(i) ==
    /\ pc[i] = "encode"
    /\ messages' = [messages EXCEPT ![i] =
                       [Read(@, "image", doc.image_data[1]) EXCEPT
                           !.attachments = IF doc.file.encodes
                                           THEN Append(@, "image") ELSE @]]
    /\ doc' = [doc EXCEPT !.image_data = Some("rgb")]
    /\ pc' = [pc EXCEPT ![i] = "file"]
    /\ UNCHANGED <<logging, settings, got, responded, lookup, sleep_s, config, objects, mock,
                   submitted, attempt, invocations, allRaised, last, last_error_msg,
                   fut, collected, results, ret>>

\* Lines 87-97: doc.image is read again, from the cache filled by now, and
\* pil_img_to_base64 encodes it; if that raises the attachment is skipped.
Encode(i) ==
    /\ pc[i] = "encode"
    /\ messages' = [messages EXCEPT ![i] =
                       [Read(@, "image", doc.image_data[1]) EXCEPT
                           !.attachments = IF doc.file.encodes
                                           THEN Append(@, "image") ELSE @]]
    /\ pc' = [pc EXCEPT ![i] = "file"]
    /\ UNCHANGED <<logging, settings, got, responded, lookup, sleep_s, doc, config, objects, mock,
                   submitted, attempt, invocations, allRaised, last, last_error_msg,
                   fut, collected, results, ret>>

\* Faulty variant: the file is attached before the image.
WithFile_First(m) ==
    [Read(m, "binary", "bytes") EXCEPT !.attachments = <<"file">> \o @]

\* Lines 101-110: the file attachment, made from doc.binary.
WithFile(m) ==
    [Read(m, "binary", "bytes") EXCEPT !.attachments = Append(@, "file")]

\* Lines 101-116 and 258-270: the file is attached if its mode is enabled,
\* the messages and the model are built, and the retry loop starts: attempt
\* 1 calls model.invoke.
SendFirst(i) ==
    /\ pc[i] = "file"
    /\ messages' = [messages EXCEPT ![i] =
                       IF "file" \in ModesOf(config) THEN WithFile(@) ELSE @]
    /\ pc' = [pc EXCEPT ![i] = "invoking"]
    /\ attempt' = [attempt EXCEPT ![i] = 1]
    /\ invocations' = [invocations EXCEPT ![i] = @ + 1]
    /\ UNCHANGED <<logging, settings, got, responded, lookup, sleep_s, doc, config, objects, mock,
                   submitted, allRaised, last, last_error_msg,
                   fut, collected, results, ret>>

\* Faulty variant: one attempt too many (attempt <= max_retries).
AttemptsRemain_OffByOne(i) == attempt[i] <= MaxRetriesOf(config)

\* Faulty variant: a target stops retrying once a sibling's run has failed.
AttemptsRemain_UnlessSiblingFailed(i) ==
    /\ attempt[i] < MaxRetriesOf(config)
    /\ \A j \in Targets \ {i} :
          ~(fut[j] # None /\ (fut[j][1].exc \/ ~fut[j][1].result[1].success))

\* range(1, max_retries + 1) has a next value; equally: attempt < max_retries.
AttemptsRemain(i) == attempt[i] < MaxRetriesOf(config)

\* sleep_s = min(2 ** (attempt - 1), 8)
BackoffCap == 8

\* Faulty variant: the backoff is not capped.
SleepOf_Uncapped(k) == 2 ^ (k - 1)

SleepOf(k) == Min(2 ^ (k - 1), BackoffCap)

\* The loop body after a failed attempt: back off if attempts remain,
\* otherwise leave the loop and return the failed result; an
\* ExtractionResult that does not validate raises out of extract_object.
AfterFailure(i, l, msg) ==
    IF AttemptsRemain(i)
    THEN /\ pc' = [pc EXCEPT ![i] = "sleeping"]
         /\ sleep_s' = [sleep_s EXCEPT ![i] = Some(SleepOf(attempt[i]))]
         /\ fut' = fut
    ELSE /\ sleep_s' = sleep_s
         /\ IF ValidResult(FailedResult(l, msg))
            THEN /\ pc' = [pc EXCEPT ![i] = "done"]
                 /\ fut' = [fut EXCEPT ![i] =
                               Some([exc |-> FALSE, msg |-> "",
                                     result |-> Some(FailedResult(l, msg))])]
            ELSE /\ pc' = [pc EXCEPT ![i] = "fault"]
                 /\ fut' = [fut EXCEPT ![i] =
                               Some([exc |-> TRUE, msg |-> "validation error",
                                     result |-> None])]

\* Faulty variant: an exception of the attempt leaves extract_object.
InvokeRaises_Escapes(i) ==
    /\ pc[i] = "invoking"
    /\ \E id \in Offered(i, attempt[i]) :
         /\ ~AttemptOf(config, id).saves
         /\ got' = [got EXCEPT ![i] = Some(id)]
    /\ pc' = [pc EXCEPT ![i] = "fault"]
    /\ fut' = [fut EXCEPT ![i] = Some([exc |-> TRUE, msg |-> "Model invocation failed",
                                        result |-> None])]
    /\ allRaised' = [allRaised EXCEPT ![i] = FALSE]
    /\ UNCHANGED <<logging, settings, responded, lookup, sleep_s, doc, messages, config, objects, mock, submitted, attempt,
                   invocations, last, last_error_msg, collected, results, ret>>

\* except Exception: model.invoke raises, or _parse_token_usage raises, or
\* (after last_* is saved) the successful ExtractionResult does not validate.
InvokeRaises(i) ==
    /\ pc[i] = "invoking"
    /\ \E id \in Offered(i, attempt[i]) :
         LET a == AttemptOf(config, id) IN
         /\ ~a.saves \/ (a.parses /\ ~a.valid)
         /\ got' = [got EXCEPT ![i] = Some(id)]
         /\ lookup' = [lookup EXCEPT ![i] = a.lookups]
         /\ responded' = [responded EXCEPT ![i] = IF a.saves THEN Some(id) ELSE @]
         /\ last' = [last EXCEPT ![i] = LastAfter(i, a)]
         /\ AfterFailure(i, LastAfter(i, a), "Model invocation failed")
         /\ allRaised' = [allRaised EXCEPT ![i] = @ /\ a.raised]
    /\ last_error_msg' = [last_error_msg EXCEPT ![i] = Some("Model invocation failed")]
    /\ UNCHANGED <<logging, settings, doc, messages, config, objects, mock, submitted, attempt, invocations,
                   collected, results, ret>>

\* model.invoke returns a response whose cleaned content is not JSON:
\* the last_* metadata is saved, json.loads raises JSONDecodeError.
InvokeNotJson(i) ==
    /\ pc[i] = "invoking"
    /\ \E id \in Offered(i, attempt[i]) :
         LET a == AttemptOf(config, id) IN
         /\ a.saves /\ ~a.parses
         /\ got' = [got EXCEPT ![i] = Some(id)]
         /\ responded' = [responded EXCEPT ![i] = Some(id)]
         /\ lookup' = [lookup EXCEPT ![i] = a.lookups]
         /\ last' = [last EXCEPT ![i] = LastAfter(i, a)]
         /\ last_error_msg' = [last_error_msg EXCEPT ![i] =
                                  Some("Response was not valid JSON")]
         /\ AfterFailure(i, LastAfter(i, a), "Response was not valid JSON")
    /\ allRaised' = [allRaised EXCEPT ![i] = FALSE]
    /\ UNCHANGED <<logging, settings, doc, messages, config, objects, mock, submitted, attempt, invocations,
                   collected, results, ret>>

\* Faulty variant: the input tokens of the attempts before are added to
\* those of the successful one.
InvokeOk_AddsEarlierUsage(i) ==
    /\ pc[i] = "invoking"
    /\ \E id \in Offered(i, attempt[i]) :
         LET a == AttemptOf(config, id)
             sum(x, y) == IF x # None /\ y # None THEN Some(x[1] + y[1]) ELSE y
         IN
         /\ a.valid
         /\ got' = [got EXCEPT ![i] = Some(id)]
         /\ responded' = [responded EXCEPT ![i] = Some(id)]
         /\ lookup' = [lookup EXCEPT ![i] = a.lookups]
         /\ last' = [last EXCEPT ![i] = LastAfter(i, a)]
         /\ fut' = [fut EXCEPT ![i] =
                       Some([exc |-> FALSE, msg |-> "",
                             result |-> Some([a.result[1] EXCEPT
                                 !.input_tokens = sum(last[i].input_tokens, @)])])]
    /\ pc' = [pc EXCEPT ![i] = "done"]
    /\ allRaised' = [allRaised EXCEPT ![i] = FALSE]
    /\ UNCHANGED <<logging, settings, sleep_s, doc, messages, config, objects, mock, submitted, attempt, invocations,
                   last_error_msg, collected, results, ret>>

\* model.invoke returns a response whose cleaned content parses: return the
\* result.
InvokeOk(i) ==
    /\ pc[i] = "invoking"
    /\ \E id \in Offered(i, attempt[i]) :
         LET a == AttemptOf(config, id) IN
         /\ a.valid
         /\ got' = [got EXCEPT ![i] = Some(id)]
         /\ responded' = [responded EXCEPT ![i] = Some(id)]
         /\ lookup' = [lookup EXCEPT ![i] = a.lookups]
         /\ last' = [last EXCEPT ![i] = LastAfter(i, a)]
         /\ fut' = [fut EXCEPT ![i] =
                       Some([exc |-> FALSE, msg |-> "", result |-> a.result])]
    /\ pc' = [pc EXCEPT ![i] = "done"]
    /\ allRaised' = [allRaised EXCEPT ![i] = FALSE]
    /\ UNCHANGED <<logging, settings, sleep_s, doc, messages, config, objects, mock, submitted, attempt, invocations,
                   last_error_msg, collected, results, ret>>

\* Faulty variant: the next attempt is started without waiting for the
\* attempt in flight or for the end of the backoff sleep.
Wake_Overlapping(i) ==
    /\ pc[i] \in {"invoking", "sleeping"}
    /\ AttemptsRemain(i)
    /\ pc' = [pc EXCEPT ![i] = "invoking"]
    /\ attempt' = [attempt EXCEPT ![i] = @ + 1]
    /\ invocations' = [invocations EXCEPT ![i] = @ + 1]
    /\ sleep_s' = [sleep_s EXCEPT ![i] = None]
    /\ UNCHANGED <<logging, settings, got, responded, lookup, doc, messages, config, objects, mock, submitted, allRaised, last, last_error_msg,
                   fut, collected, results, ret>>

\* time.sleep ends: the next iteration calls model.invoke again.
Wake(i) ==
    /\ pc[i] = "sleeping"
    /\ pc' = [pc EXCEPT ![i] = "invoking"]
    /\ attempt' = [attempt EXCEPT ![i] = @ + 1]
    /\ invocations' = [invocations EXCEPT ![i] = @ + 1]
    /\ sleep_s' = [sleep_s EXCEPT ![i] = None]
    /\ UNCHANGED <<logging, settings, got, responded, lookup, doc, messages, config, objects, mock, submitted, allRaised, last, last_error_msg,
                   fut, collected, results, ret>>

----------------------------------------------------------------------------
\* Faulty variant: only successful results are recorded.
Store_SkipFailed(res, name, r) ==
    IF r.success
    THEN [n \in (DOMAIN res) \cup {name} |-> IF n = name THEN r ELSE res[n]]
    ELSE res

\* Faulty variant: the dict is rebound instead of updated.
Store_Replace(res, name, r) == [n \in {name} |-> r]

\* results[obj_name] = r
Store(res, name, r) ==
    [n \in (DOMAIN res) \cup {name} |-> IF n = name THEN r ELSE res[n]]

\* Faulty variant: the exception of a future is not converted into a result.
Collected_DropFault(res, name, f) ==
    IF f.exc THEN res ELSE Store(res, name, f.result[1])

\* Faulty variant: results are paired with the target names in order of arrival.
Collected_ByArrival(res, name, f) ==
    LET key == AllNames[Min(Cardinality(DOMAIN res) + 1, Len(AllNames))]
    IN IF f.exc THEN Store(res, key, FaultResult(f.msg))
       ELSE Store(res, key, f.result[1])

\* The body of the as_completed loop for a finished future f.
Collected(res, name, f) ==
    IF f.exc THEN Store(res, name, FaultResult(f.msg))
    ELSE Store(res, name, f.result[1])

\* as_completed yields a future only when it is done.
MayCollect(i) ==
    /\ submitted = Len(objects)
    /\ i \notin collected
    /\ fut[i] # None

Collect(i) ==
    /\ ret = None
    /\ MayCollect(i)
    /\ results' = Collected(results, objects[i].name, fut[i][1])
    /\ collected' = collected \cup {i}
    /\ UNCHANGED <<logging, settings, got, responded, lookup, sleep_s, doc, messages, config, objects, mock, submitted, pc, attempt, invocations,
                   allRaised, last, last_error_msg, fut, ret>>

\* Faulty variant: any() instead of all().
OverallSuccess_Any(res) == \E n \in DOMAIN res : res[n].success

\* Faulty variant: an empty result set does not count as a success.
OverallSuccess_NonEmpty(res) == DOMAIN res # {} /\ \A n \in DOMAIN res : res[n].success

\* overall_success = all(result.success for result in results.values())
OverallSuccess(res) == \A n \in DOMAIN res : res[n].success

\* Faulty variant: the message is set on every return and names the targets.
ExtractionResults_NamingMessage(res) ==
    [results |-> res,
     success |-> OverallSuccess(res),
     message |-> Some(<<"Extractions failed", {n \in DOMAIN res : ~res[n].success}>>),
     total_input_tokens |-> None,
     total_output_tokens |-> None,
     total_cost |-> None]

\* ExtractionResults(results=..., success=..., message=...): the totals keep
\* their default None.
ExtractionResults(res) ==
    [results |-> res,
     success |-> OverallSuccess(res),
     message |-> IF OverallSuccess(res) THEN None ELSE Some("Some extractions failed"),
     total_input_tokens |-> None,
     total_output_tokens |-> None,
     total_cost |-> None]

\* Faulty variant: the loop is left at the first completed future.
MayReturn_FirstCompleted ==
    /\ submitted = Len(objects)
    /\ collected # {} \/ Targets = {}

\* Faulty variant: only as many futures as the pool has workers are awaited.
MayReturn_PoolSized ==
    /\ submitted = Len(objects)
    /\ Cardinality(collected) >= Min(Len(objects), MaxWorkersOf(config))

\* as_completed is exhausted when every submitted future was yielded.
MayReturn ==
    /\ submitted = Len(objects)
    /\ collected = Targets

Return ==
    /\ ret = None
    /\ MayReturn
    /\ ret' = Some(ExtractionResults(results))
    /\ UNCHANGED <<logging, settings, got, responded, lookup, sleep_s, doc, messages, config, objects, mock, submitted, pc, attempt, invocations,
                   allRaised, last, last_error_msg, fut, collected, results>>

Next ==
    \/ Submit
    \/ \E i \in Targets : StartFault(i)
    \/ \E i \in Targets : StartInvoke(i)
    \/ \E i \in Targets : InvokeRaises(i)
    \/ \E i \in Targets : InvokeNotJson(i)
    \/ \E i \in Targets : InvokeOk(i)
    \/ \E i \in Targets : Wake(i)
    \/ \E i \in Targets : Collect(i)
    \/ Return

Spec == Init /\ [][Next]_vars

----------------------------------------------------------------------------
\* The same program against a deterministic mock collaborator, on targets
\* with pairwise distinct names, with a pool of one worker or of four.
DistinctNames(objs) ==
    \A i, j \in DOMAIN objs : i # j => objs[i].name # objs[j].name

Mocks(n) == [fails : [1..n -> 0..MaxRetries], failWith : FailResponses,
             okWith : OkResponses]

InitDet ==
    /\ config \in [max_retries : 1..MaxRetries, parallel_requests : {1, 4},
                    calculate_costs : BOOLEAN]
    /\ objects \in {objs \in TargetLists :
                       /\ DistinctNames(objs)
                       /\ Cardinality({i \in DOMAIN objs : objs[i].kind = "other"}) <= 1}
    /\ mock \in {Some(m) : m \in Mocks(Len(objects))}
    /\ doc = Document(PlainPdf)
    /\ InitRun

SpecDet == InitDet /\ [][Next]_vars

----------------------------------------------------------------------------
\* extract_object on one target against the rich collaborator.
InitObj ==
    /\ config \in [max_retries : 1..MaxRetries, parallel_requests : {1},
                    calculate_costs : BOOLEAN]
    /\ objects \in {<<[name |-> "a", kind |-> k]>> : k \in Kinds}
    /\ mock = Some([offers |-> "rich"])
    /\ doc = Document(PlainPdf)
    /\ InitRun

SpecObj == InitObj /\ [][Next]_vars

\* extract_object on one target against a collaborator that answers one
\* content, any of at most MaxLen characters, bare or wrapped in fences.
InitFence ==
    /\ config \in [max_retries : 1..MaxRetries, parallel_requests : {1},
                    calculate_costs : {FALSE}]
    /\ objects \in {<<[name |-> "a", kind |-> k]>> : k \in Kinds}
    /\ mock \in {Some([offers |-> "fenced", content |-> s]) :
                    s \in Contents \cup {Wrap(c) : c \in Contents}}
    /\ doc = Document(PlainPdf)
    /\ InitRun

SpecFence == InitFence /\ [][Next]_vars

\* extract_object on one target with up to BackoffRetries attempts, enough
\* for the backoff to reach its cap.
InitBackoff ==
    /\ config \in [max_retries : 1..BackoffRetries, parallel_requests : {1},
                    calculate_costs : {FALSE}]
    /\ objects \in {<<[name |-> "a", kind |-> k]>> : k \in Kinds}
    /\ mock = None
    /\ doc = Document(PlainPdf)
    /\ InitRun

SpecBackoff == InitBackoff /\ [][Next]_vars

\* extract_objects on targets with distinct names over every pool size from
\* the unset one to one larger than the number of targets.
PoolChoices == 0..(MaxTargets + 1)

InitPool ==
    /\ config \in [max_retries : 1..MaxRetries, parallel_requests : PoolChoices,
                    calculate_costs : {FALSE}]
    /\ objects \in {objs \in TargetLists : DistinctNames(objs)}
    /\ mock = None
    /\ doc = Document(PlainPdf)
    /\ InitRun

SpecPool == InitPool /\ [][Next]_vars

\* extract_objects with _build_messages taken step by step, over every file
\* and every choice of input modes, with a pool of one worker or of two,
\* against a collaborator that raises or answers one content.
\* What a conversion does is left out of the file where the modes never ask
\* for the conversion.
Relevant(f, modes) ==
    /\ "text" \notin modes =>
          f.text_conv = (IF f.file_type = "image" THEN "na" ELSE "t")
    /\ "image" \notin modes =>
          /\ f.image_conv = (IF f.file_type = "text" THEN "na" ELSE "img")
          /\ f.encodes = (f.file_type # "text")

InitDoc ==
    /\ config \in [max_retries : {2}, parallel_requests : {1, 2},
                    calculate_costs : {FALSE},
                    file_input_modes : SUBSET FileInputModes]
    /\ doc \in {Document(f) : f \in {g \in Files : Relevant(g, ModesOf(config))}}
    /\ objects \in {objs \in TargetLists :
                       /\ DistinctNames(objs) /\ Len(objs) >= 1
                       /\ \A i \in DOMAIN objs : objs[i].kind = "other" => i = 1}
    /\ mock \in {Some([offers |-> "fenced", content |-> s]) : s \in {<<"x">>, <<"J">>}}
    /\ InitRun

NextDoc ==
    \/ Submit
    \/ \E i \in Targets : StartFault(i)
    \/ \E i \in Targets : StartBuild(i)
    \/ \E i \in Targets : TextAccess(i)
    \/ \E i \in Targets : TextConvert(i)
    \/ \E i \in Targets : ImageAccess(i)
    \/ \E i \in Targets : ImageConvert(i)
    \/ \E i \in Targets : Encode(i)
    \/ \E i \in Targets : SendFirst(i)
    \/ \E i \in Targets : InvokeRaises(i)
    \/ \E i \in Targets : InvokeNotJson(i)
    \/ \E i \in Targets : InvokeOk(i)
    \/ \E i \in Targets : Wake(i)
    \/ \E i \in Targets : Collect(i)
    \/ Return

SpecDoc == InitDoc /\ [][NextDoc]_vars

\* get_config called once, for every key, environment and file.
InitConfig ==
    /\ config \in [max_retries : {1}, parallel_requests : {1}, calculate_costs : {FALSE}]
    /\ objects = <<>>
    /\ mock = None
    /\ doc = Document(PlainPdf)
    /\ logging = NoLogging
    /\ settings \in [environ : EnvValues, file : ConfigFiles, key : LookupKeys,
                     value : {None}]
    /\ NotStarted

CallGetConfig ==
    /\ settings.value = None
    /\ settings' = [settings EXCEPT
                       !.value = Some(GetConfig(settings.environ, settings.file, settings.key))]
    /\ UNCHANGED <<logging, doc, messages, config, objects, mock, submitted, pc, attempt,
                   invocations, allRaised, last, last_error_msg, got, responded,
                   lookup, sleep_s, fut, collected, results, ret>>

SpecConfig == InitConfig /\ [][CallGetConfig]_vars

\* extract_objects under every kind of max_retries and parallel_requests:
\* negative, zero, None, and a number above one.
ClampChoices == {-1, 0, MaxRetries}
ClampConfigs ==
    {c \in [max_retries : ClampChoices, parallel_requests : ClampChoices,
            calculate_costs : {FALSE},
            none : SUBSET {"max_retries", "parallel_requests"}] :
        \A f \in c.none : c[f] = 0}

InitClamp ==
    /\ config \in ClampConfigs
    /\ objects \in {objs \in TargetLists : DistinctNames(objs)}
    /\ mock = None
    /\ doc = Document(PlainPdf)
    /\ InitRun

SpecClamp == InitClamp /\ [][Next]_vars

\* extract_objects when nothing hangs: the submissions are carried out, an
\* idle pool thread takes the next queued item, every model.invoke (with the
\* cost lookup that follows it) returns or raises, every sleep ends, the
\* as_completed loop takes each finished future, and the function returns.
Progress ==
    /\ WF_vars(Submit)
    /\ \A i \in 1..MaxTargets :
          /\ WF_vars(i \in Targets /\ (StartFault(i) \/ StartInvoke(i)))
          /\ WF_vars(i \in Targets /\ (InvokeRaises(i) \/ InvokeNotJson(i) \/ InvokeOk(i)))
          /\ WF_vars(i \in Targets /\ Wake(i))
          /\ WF_vars(i \in Targets /\ Collect(i))
    /\ WF_vars(Return)

InitLive ==
    /\ config \in [max_retries : 1..MaxRetries, parallel_requests : 1..MaxTargets,
                    calculate_costs : {TRUE}]
    /\ objects \in {objs \in TargetLists : DistinctNames(objs)}
    /\ mock = None
    /\ doc = Document(PlainPdf)
    /\ InitRun

SpecLive == InitLive /\ [][Next]_vars /\ Progress

\* setup_logging, called by several threads.  The module holds no lock: a
\* thread can be suspended between any two of its steps.
InitLog ==
    /\ config \in [max_retries : {1}, parallel_requests : {1}, calculate_costs : {FALSE}]
    /\ objects = <<>>
    /\ mock = None
    /\ doc = Document(PlainPdf)
    /\ logging \in {Logging(ok) : ok \in BOOLEAN}
    /\ settings = NoSettings
    /\ NotStarted

Extraction == <<settings, doc, messages, config, objects, mock, submitted, pc, attempt,
                invocations, allRaised, last, last_error_msg, got, responded,
                lookup, sleep_s, fut, collected, results, ret>>

\* if _LOGGING_CONFIGURED: return
SetupReturnsEarly(t) ==
    /\ logging.at[t] = "out"
    /\ logging.calls[t] < MaxCalls
    /\ logging.configured
    /\ logging' = [logging EXCEPT !.calls[t] = @ + 1]
    /\ UNCHANGED Extraction

\* the flag is read as False: the levels are resolved
SetupEnters(t) ==
    /\ logging.at[t] = "out"
    /\ logging.calls[t] < MaxCalls
    /\ ~logging.configured
    /\ logging' = [logging EXCEPT !.at[t] = "console"]
    /\ UNCHANGED Extraction

\* root.addHandler(console_handler)
AddConsole(t) ==
    /\ logging.at[t] = "console"
    /\ logging' = [logging EXCEPT !.handlers = Append(@, "console"), !.at[t] = "file"]
    /\ UNCHANGED Extraction

\* root.addHandler(file_handler), or the except branch when the file
\* cannot be set up
AddFile(t) ==
    /\ logging.at[t] = "file"
    /\ logging' = [logging EXCEPT
                      !.handlers = IF logging.file_ok THEN Append(@, "file") ELSE @,
                      !.at[t] = "flag"]
    /\ UNCHANGED Extraction

\* _LOGGING_CONFIGURED = True, and the call returns
SetFlag(t) ==
    /\ logging.at[t] = "flag"
    /\ logging' = [logging EXCEPT !.configured = TRUE, !.at[t] = "out",
                                  !.calls[t] = @ + 1]
    /\ UNCHANGED Extraction

NextLog ==
    \E t \in LogThreads :
        \/ SetupReturnsEarly(t)
        \/ SetupEnters(t)
        \/ AddConsole(t)
        \/ AddFile(t)
        \/ SetFlag(t)

SpecLog == InitLog /\ [][NextLog]_vars

----------------------------------------------------------------------------
\* Vocabulary of the properties.
Returned == ret # None
NamesOf(objs) == {objs[i].name : i \in DOMAIN objs}
UniqueName(i) == \A j \in Targets : j # i => objects[j].name # objects[i].name

\* What the run of target i produced, as an ExtractionResult.
Faulted(i) == fut[i] # None /\ fut[i][1].exc
Succeeded(i) == fut[i] # None /\ ~fut[i][1].exc /\ fut[i][1].result[1].success
Exhausted(i) == fut[i] # None /\ ~fut[i][1].exc /\ ~fut[i][1].result[1].success
RunResult(i) ==
    IF fut[i][1].exc
    THEN [extracted_data |-> None, response_raw |-> None, success |-> FALSE,
          message |-> fut[i][1].msg, input_tokens |-> None,
          output_tokens |-> None, cost |-> None]
    ELSE fut[i][1].result[1]

\* C1: after extract_objects returns, the keys of the result set are exactly
\* the names of the input targets, whatever the per-target outcomes.
C1_KeysEqualNames ==
    Returned => DOMAIN ret[1].results = NamesOf(objects)

\* C1 witness: a return after one target faulted and another exhausted its retries.
C1_Witness ==
    /\ Returned
    /\ \E i, j \in Targets : Faulted(i) /\ Exhausted(j) /\ attempt[j] >= 2
    /\ DOMAIN ret[1].results = {"a", "b"}

\* C2 as stated: N input targets always give exactly N entries.
C2_ExactlyNEntries ==
    Returned => Cardinality(DOMAIN ret[1].results) = Len(objects)

\* C2 amended: the result set has one entry per distinct target name, hence
\* exactly N entries for N targets with pairwise distinct names.
C2_OneEntryPerDistinctName ==
    Returned =>
        /\ Cardinality(DOMAIN ret[1].results) = Cardinality(NamesOf(objects))
        /\ DistinctNames(objects) =>
               Cardinality(DOMAIN ret[1].results) = Len(objects)

\* C2 witness: two targets with distinct names, one failed, two entries.
C2_Witness ==
    /\ Returned
    /\ Len(objects) = 2 /\ DistinctNames(objects)
    /\ \E i \in Targets : Exhausted(i)
    /\ Cardinality(DOMAIN ret[1].results) = 2

\* C3: the result set's success flag is true iff every individual result in
\* the result set has success true.
C3_SuccessIffAll ==
    Returned =>
        (ret[1].success <=>
            \A n \in DOMAIN ret[1].results : ret[1].results[n].success)

\* C3 witness: a returned result set holding a successful and a failed result.
C3_Witness ==
    /\ Returned
    /\ ~ret[1].success
    /\ \E n, m \in DOMAIN ret[1].results :
          ret[1].results[n].success /\ ~ret[1].results[m].success

\* Sum of the optional field f over the results that report it; None if none does.
RECURSIVE SumOver(_, _, _)
SumOver(res, f, keys) ==
    IF keys = {} THEN 0
    ELSE LET n == CHOOSE x \in keys : TRUE
         IN (IF res[n][f] = None THEN 0 ELSE res[n][f][1]) + SumOver(res, f, keys \ {n})
TotalOf(res, f) ==
    IF \A n \in DOMAIN res : res[n][f] = None THEN None
    ELSE Some(SumOver(res, f, DOMAIN res))

\* C4: the totals of the returned result set are the sums of the non-null
\* per-target fields, and None when no result reports the field.
C4_TotalsAreSums ==
    Returned =>
        /\ ret[1].total_input_tokens = TotalOf(ret[1].results, "input_tokens")
        /\ ret[1].total_output_tokens = TotalOf(ret[1].results, "output_tokens")
        /\ ret[1].total_cost = TotalOf(ret[1].results, "cost")

\* C5: with max_retries = R >= 1 and a collaborator whose every call raises,
\* extract_object makes exactly R model invocations and returns success = false;
\* no run ever makes more than R invocations.
C5_ExactlyRAttempts ==
    \A i \in Targets :
        config.max_retries >= 1 =>
            /\ invocations[i] <= config.max_retries
            /\ (pc[i] = "done" /\ allRaised[i]) =>
                   /\ invocations[i] = config.max_retries
                   /\ Exhausted(i)

\* C5 witness: a run that ended after two invocations that both raised.
C5_Witness ==
    \E i \in Targets :
        /\ config.max_retries = 2
        /\ pc[i] = "done" /\ allRaised[i]
        /\ invocations[i] = 2

\* C6: a fault escaping extract_object for one target does not make
\* extract_objects raise: the target gets a failed result without data whose
\* message is the fault text, and the result set returned is complete.
C6_FaultBecomesResult ==
    Returned =>
        /\ DOMAIN ret[1].results = NamesOf(objects)
        /\ \A i \in Targets :
              (Faulted(i) /\ UniqueName(i)) =>
                  /\ objects[i].name \in DOMAIN ret[1].results
                  /\ ~ret[1].results[objects[i].name].success
                  /\ ret[1].results[objects[i].name].extracted_data = None
                  /\ ret[1].results[objects[i].name].message = fut[i][1].msg

\* C6 witness: a return where one target faulted and its sibling succeeded.
C6_Witness ==
    /\ Returned
    /\ \E i, j \in Targets :
          /\ Faulted(i) /\ Succeeded(j)
          /\ ret[1].results[objects[i].name].message = "Unknown object type"
          /\ ret[1].results[objects[j].name].success

\* The state of the run of target i.
Local(i) == <<pc[i], attempt[i], invocations[i], allRaised[i], last[i],
              last_error_msg[i], fut[i]>>

\* The run of target j was neither cancelled, skipped nor shortened.
CompleteRun(j) ==
    \/ Faulted(j) /\ GetPromptRaises(objects[j])
    \/ Succeeded(j) /\ invocations[j] = attempt[j] /\ invocations[j] >= 1
    \/ Exhausted(j) /\ invocations[j] = Max(1, config.max_retries)

\* C7: failures are isolated per target: a step of one target's run (a failed
\* attempt, exhaustion, a fault) changes no other target's run, and at the
\* return every target has run to its own end and, its name being its own,
\* has its own result stored.
C7_FailuresIsolated ==
    [][/\ \A i, j \in Targets :
            (i # j /\ Local(i)' # Local(i)) => Local(j)' = Local(j)
       /\ Returned' =>
            \A j \in Targets :
                /\ CompleteRun(j)'
                /\ UniqueName(j) => ret'[1].results[objects[j].name] = RunResult(j)']_vars

\* C7 witness: one target faulted and another exhausted its retries, and the
\* third outcome, a sibling's success after a retry, was stored.
C7_Witness ==
    /\ Returned
    /\ \E i, j \in Targets :
          /\ i # j
          /\ Faulted(i) \/ Exhausted(i)
          /\ Succeeded(j) /\ attempt[j] = 2

\* C8: extract_objects does not return before every target run is terminal:
\* at the return no target is queued, invoking or sleeping in backoff.
C8_ReturnAfterAllTerminal ==
    Returned =>
        /\ submitted = Len(objects)
        /\ \A i \in Targets : pc[i] \in Terminal /\ fut[i] # None

\* C8 witness: a return after a target went through a backoff sleep.
C8_Witness ==
    /\ Returned
    /\ Len(objects) = 2
    /\ \E i \in Targets : attempt[i] >= 2

\* What extract_object returns for target i against the mock m, read off the
\* mock alone: the pool size does not occur in it.
ExpectedResult(c, obj, m, i) ==
    IF obj.kind \notin {"table", "string"} THEN FaultResult("Unknown object type")
    ELSE IF m.fails[i] >= c.max_retries
    THEN IF m.failWith.kind = "raise"
         THEN FailedResult(NoLast, "Model invocation failed")
         ELSE [extracted_data |-> None,
               response_raw |-> Some(PayloadOf(c, m.failWith)),
               success |-> FALSE, message |-> "Response was not valid JSON",
               input_tokens |-> m.failWith.usage_metadata.input_tokens,
               output_tokens |-> m.failWith.usage_metadata.output_tokens,
               cost |-> IF c.calculate_costs /\ m.failWith.gen_id
                        THEN m.failWith.answers[1].total_cost ELSE None]
    ELSE [extracted_data |-> Some(m.okWith.content),
          response_raw |-> Some(PayloadOf(c, m.okWith)),
          success |-> TRUE, message |-> "Extraction successful",
          input_tokens |-> m.okWith.usage_metadata.input_tokens,
          output_tokens |-> m.okWith.usage_metadata.output_tokens,
          cost |-> IF c.calculate_costs /\ m.okWith.gen_id
                   THEN m.okWith.answers[1].total_cost ELSE None]

\* C9: against a deterministic mock and on distinct names the result set is
\* the one the mock determines, with a pool of one worker and with a pool
\* of four: the pool size changes the interleaving, not the result set.
C9_PoolSizeIrrelevant ==
    Returned =>
        /\ DOMAIN ret[1].results = NamesOf(objects)
        /\ \A i \in Targets :
              ret[1].results[objects[i].name] =
                  ExpectedResult(config, objects[i], mock[1], i)
        /\ ret[1].success =
              \A i \in Targets : ExpectedResult(config, objects[i], mock[1], i).success

\* C9 witness: a pool of four returned two results, one of them after a retry.
C9_Witness ==
    /\ Returned
    /\ config.parallel_requests = 4
    /\ Len(objects) = 2
    /\ \E i, j \in Targets : Succeeded(i) /\ attempt[i] = 2 /\ Exhausted(j)

\* The returned mapping, success and message are those the runs' results
\* determine, whichever run completed last.
AggregatesRuns ==
    /\ \A i \in Targets :
          /\ objects[i].name \in DOMAIN ret[1].results
          /\ ret[1].results[objects[i].name] = RunResult(i)
    /\ ret[1].success = \A i \in Targets : RunResult(i).success
    /\ ret[1].message =
          IF \A i \in Targets : RunResult(i).success THEN None
          ELSE Some("Some extractions failed")

\* C10 as stated: for every input target list the returned mapping, success
\* and message do not depend on the order in which the runs complete.
C10_DeterministicForEveryList ==
    Returned => AggregatesRuns

\* C10 amended: for target lists with pairwise distinct names the returned
\* mapping, success and message do not depend on the completion order.
C10_DeterministicForDistinctNames ==
    (Returned /\ DistinctNames(objects)) => AggregatesRuns

\* C10 witness: two distinctly named targets with different outcomes, the
\* second one collected first or last.
C10_Witness ==
    /\ Returned
    /\ Len(objects) = 2 /\ DistinctNames(objects)
    /\ Succeeded(1) /\ Exhausted(2)
    /\ ret[1].results["a"].success /\ ~ret[1].results["b"].success

----------------------------------------------------------------------------
\* The attempt of target i that received got[i] has ended.
AttemptEnded(i) == got[i] # None /\ pc[i] # "invoking"

\* C11: with calculate_costs false no GET is issued to the generation
\* endpoint (and no lookup delay is slept), on any attempt, whatever the
\* response carries; the same when the response carries no generation id.
C11_NoLookupUnlessAsked ==
    \A i \in Targets :
        (got[i] # None /\ (~config.calculate_costs \/ ~Got(i).gen_id)) =>
            lookup[i].requests = 0 /\ lookup[i].sleeps = <<>>

\* C11 witness: with calculate_costs false a second attempt has received a
\* response that carries a generation id the endpoint would answer.
C11_Witness ==
    \E i \in Targets :
        /\ ~config.calculate_costs
        /\ attempt[i] = 2 /\ AttemptEnded(i)
        /\ Got(i).gen_id /\ Got(i).answers = <<OkCost(1)>>
        /\ lookup[i].requests = 0

\* The endpoint answers 404 to the first two lookups and 200 with a total
\* cost to the third.
FoundAtThird(answers) ==
    /\ Len(answers) = 3
    /\ answers[1].status = "404" /\ answers[2].status = "404"
    /\ answers[3].status = "ok" /\ answers[3].body = "cost"

\* C12: with calculate_costs true and a generation id, when the endpoint
\* answers 404, 404 and then 200 with a total cost to the lookups of an
\* attempt that ends the run, the result of the run carries that cost: three
\* GETs were issued, with sleeps of 0.5 s and 1.0 s between them.
C12_CostAfterTwoNotFound ==
    \A i \in Targets :
        (/\ pc[i] = "done" /\ got[i] # None
         /\ config.calculate_costs /\ Got(i).gen_id
         /\ lookup[i].requests > 0
         /\ FoundAtThird(Got(i).answers)) =>
            /\ RunResult(i).cost = Got(i).answers[3].total_cost
            /\ RunResult(i).cost # None
            /\ lookup[i] = [requests |-> 3, sleeps |-> <<5, 10>>]

\* C12 witness: a successful run and an exhausted run whose ending attempt
\* had its cost found at the third lookup.
C12_Witness ==
    \E i \in Targets :
        /\ pc[i] = "done" /\ got[i] # None /\ config.calculate_costs
        /\ Got(i).gen_id /\ FoundAtThird(Got(i).answers)
        /\ lookup[i].requests = 3
        /\ RunResult(i).cost = Some(1)
        /\ Exhausted(i) /\ attempt[i] = 2

\* How the attempt that receives r ends under configuration c: "ok" (line
\* 304), "notjson" (line 314) or "raised" (line 326).
AttemptOutcome(c, r) ==
    IF r.kind = "raise" \/ ParseTokenUsage(r).raises THEN "raised"
    ELSE IF ~Parses(r) THEN "notjson"
    ELSE IF ValidResult(SuccessResult(c, r)) THEN "ok"
    ELSE "raised"

\* How the latest attempt of target i did end.
ObservedOutcome(i) ==
    IF Succeeded(i) THEN "ok"
    ELSE IF last_error_msg[i] = Some("Response was not valid JSON") THEN "notjson"
    ELSE "raised"

\* C13: whatever the generation endpoint answers, the attempt ends as it
\* does with calculate_costs false: same outcome, same number of model
\* invocations and, on success, same extracted data and tokens.
C13_CostLookupIsolated ==
    \A i \in Targets :
        AttemptEnded(i) =>
            LET off == [config EXCEPT !.calculate_costs = FALSE]
                r == Got(i)
            IN /\ ObservedOutcome(i) = AttemptOutcome(off, r)
               /\ AttemptOutcome(off, r) = "ok" =>
                     /\ pc[i] = "done" /\ invocations[i] = attempt[i]
                     /\ RunResult(i).extracted_data = SuccessResult(off, r).extracted_data
                     /\ RunResult(i).input_tokens = SuccessResult(off, r).input_tokens
                     /\ RunResult(i).output_tokens = SuccessResult(off, r).output_tokens

\* C14: fence stripping is transparent: a content wrapped in a leading json
\* fence and a trailing fence is cleaned to the same string as the content
\* itself, and the attempt that receives the wrapped content ends as the
\* attempt that receives the bare content does: success with the same
\* extracted data, or the same parse failure.
C14_FenceTransparent ==
    \A i \in Targets :
        (AttemptEnded(i) /\ Got(i).kind = "text") =>
            LET r == Got(i)
                wrapped == [r EXCEPT !.content = Wrap(r.content)]
                bare == [r EXCEPT !.content = Unwrap(r.content)]
            IN /\ CleanResponseContent(wrapped) = CleanResponseContent(r)
               /\ IsWrapped(r.content) =>
                     IF JsonLoads(CleanResponseContent(bare))
                     THEN /\ Succeeded(i)
                          /\ RunResult(i).extracted_data = Some(CleanResponseContent(bare))
                     ELSE /\ ~Succeeded(i)
                          /\ last_error_msg[i] = Some("Response was not valid JSON")

\* C14 witness: a wrapped content that itself begins with a fence was
\* parsed to the data of the bare content.
C14_Witness ==
    \E i \in Targets :
        /\ AttemptEnded(i)
        /\ Got(i).content = Wrap(<<"B", "B", "B", "x">>)
        /\ Succeeded(i)
        /\ RunResult(i).extracted_data = Some(<<"x">>)

\* The diagnostic metadata of an ExtractionResult.
MetadataOf(res) ==
    [input_tokens |-> res.input_tokens, output_tokens |-> res.output_tokens,
     cost |-> res.cost, response_raw |-> res.response_raw]

\* C15 as stated: when every attempt failed, the failed result carries the
\* metadata of the last attempt made, be that attempt a transport failure
\* (the model call raised: no metadata) or a parse failure (the metadata of
\* its response).
C15_MetadataOfLastAttempt ==
    \A i \in Targets :
        (Exhausted(i) /\ got[i] # None) =>
            LET r == Got(i)
            IN /\ r.kind = "raise" => MetadataOf(RunResult(i)) = NoLast
               /\ (SavesLast(r) /\ ~Parses(r)) =>
                     MetadataOf(RunResult(i)) = LastOf(config, r)

\* C15 amended: when every attempt failed, the failed result carries the
\* metadata of the latest attempt whose model call returned a response from
\* which the token usage could be read, even if later attempts raised; it
\* carries none if there was no such attempt.
C15_MetadataOfLastResponse ==
    \A i \in Targets :
        Exhausted(i) =>
            MetadataOf(RunResult(i)) =
                IF responded[i] = None THEN NoLast
                ELSE LastOf(config, Responded(i))

\* C15 witness: the first attempt returned content that is not JSON with
\* its token usage, the second and last attempt raised, and the failed
\* result carries the tokens of the first.
C15_Witness ==
    \E i \in Targets :
        /\ Exhausted(i) /\ attempt[i] = 2
        /\ got[i] = Some(RaiseResp.name)
        /\ responded[i] # None
        /\ RunResult(i).input_tokens = Some(3)
        /\ RunResult(i).response_raw # None

C17_UsageFailureDegrades ==
    \A i \in Targets :
        (/\ AttemptEnded(i) /\ Got(i).kind = "text"
         /\ Len(FetchGenerationCost(config, Got(i))) <= 1) =>
            /\ ObservedOutcome(i) = IF Parses(Got(i)) THEN "ok" ELSE "notjson"
            /\ Parses(Got(i)) => pc[i] = "done" /\ invocations[i] = attempt[i]

\* C18: the message of the returned result set is non-null iff some
\* individual result has success = false, and then it is the fixed text
\* "Some extractions failed", whichever and however many targets failed.
C18_MessageIffSomeFailed ==
    Returned =>
        /\ ret[1].message # None <=>
              \E n \in DOMAIN ret[1].results : ~ret[1].results[n].success
        /\ ret[1].message # None => ret[1].message = Some("Some extractions failed")

\* C18 witness: a return with one successful and one failed result, with
\* the message set.
C18_Witness ==
    /\ Returned
    /\ \E n, k \in DOMAIN ret[1].results :
          ret[1].results[n].success /\ ~ret[1].results[k].success
    /\ ret[1].message = Some("Some extractions failed")

\* min(2^(k-1), 8) for k >= 1, written out.
ExpectedSleep(k) == IF k = 1 THEN 1 ELSE IF k = 2 THEN 2 ELSE IF k = 3 THEN 4 ELSE 8

\* C19: after the k-th failed attempt, if k < max_retries the run sleeps
\* exactly min(2^(k-1), 8) seconds and its next step invokes the model again
\* as attempt k + 1; if k = max_retries it does not sleep and ends in
\* failure.  Nothing is slept after a successful attempt.
C19_Backoff ==
    /\ [](\A i \in Targets :
            /\ pc[i] = "sleeping" =>
                  /\ attempt[i] < config.max_retries
                  /\ sleep_s[i] = Some(ExpectedSleep(attempt[i]))
            /\ pc[i] # "sleeping" => sleep_s[i] = None)
    /\ [][\A i \in Targets :
            /\ (pc[i] = "invoking" /\ pc'[i] # "invoking") =>
                  \/ /\ pc'[i] = "done" /\ fut'[i][1].result[1].success
                     /\ sleep_s'[i] = None
                  \/ /\ attempt[i] < config.max_retries
                     /\ pc'[i] = "sleeping"
                     /\ sleep_s'[i] = Some(ExpectedSleep(attempt[i]))
                  \/ /\ attempt[i] = config.max_retries
                     /\ pc'[i] = "done" /\ ~fut'[i][1].result[1].success
                     /\ sleep_s'[i] = None
            /\ (pc[i] = "sleeping" /\ pc'[i] # "sleeping") =>
                  /\ pc'[i] = "invoking"
                  /\ attempt'[i] = attempt[i] + 1
                  /\ invocations'[i] = invocations[i] + 1]_vars

\* C19 witness: the fifth attempt failed with attempts remaining and the
\* run sleeps the capped 8 seconds, not 16.
C19_Witness ==
    \E i \in Targets :
        /\ pc[i] = "sleeping" /\ attempt[i] = 5
        /\ sleep_s[i] = Some(8)

\* C20: the run of a target stops at the first attempt whose cleaned content
\* parses and returns success with the parsed value; a raising model call
\* and unparseable content are retried while attempts remain; so every
\* ended attempt k is the k-th invocation, k <= max_retries, the run is
\* terminal exactly when the content parsed or k = max_retries, and a
\* terminal run is not invoked again.
C20_StopsAtFirstParseable ==
    /\ [](\A i \in Targets :
            AttemptEnded(i) =>
                LET r == Got(i)
                    parseable == r.kind = "text" /\ Parses(r)
                IN /\ invocations[i] = attempt[i]
                   /\ attempt[i] <= MaxRetriesOf(config)
                   /\ parseable =>
                         /\ Succeeded(i)
                         /\ RunResult(i).extracted_data = Some(CleanResponseContent(r))
                   /\ ~parseable =>
                         IF attempt[i] < MaxRetriesOf(config)
                         THEN pc[i] = "sleeping"
                         ELSE Exhausted(i))
    /\ [][\A i \in Targets :
            pc[i] \in Terminal =>
                /\ pc'[i] = pc[i] /\ fut'[i] = fut[i]
                /\ invocations'[i] = invocations[i]]_vars

----------------------------------------------------------------------------
\* The pool size the configuration asks for.
PoolSize == Max(1, config.parallel_requests)

\* C21: at every moment the number of targets whose run is in progress is at
\* most max(1, parallel_requests), and a queued target is taken only while
\* fewer runs than that are in progress, that is, by a worker whose earlier
\* targets have all reached a terminal state.
C21_PoolBounded ==
    /\ [](Cardinality(Running) <= PoolSize)
    /\ [][\A i \in Targets :
             (pc[i] = "queued" /\ pc'[i] # "queued") =>
                 /\ Cardinality(Running) < PoolSize
                 /\ \A j \in Targets \ {i} : pc'[j] = pc[j]]_vars

\* C21 witness: with parallel_requests unset the single worker is busy with
\* the first target, asleep in its backoff, while the second target waits.
C21_Witness ==
    /\ config.parallel_requests = 0
    /\ Len(objects) = 2 /\ submitted = 2
    /\ pc[1] = "sleeping" /\ pc[2] = "queued"

----------------------------------------------------------------------------
\* The model invocations of target i that were started and have not ended.
InFlight(i) ==
    invocations[i] - (IF pc[i] = "invoking" THEN attempt[i] - 1 ELSE attempt[i])

\* C22: the retries of one target run are strictly sequential: at most one
\* model invocation of the run is in flight, and an attempt after the first
\* starts only from the backoff sleep that followed the failure of the
\* attempt before it, ending that sleep.
C22_RetriesSequential ==
    /\ [](\A i \in Targets :
             /\ InFlight(i) \in {0, 1}
             /\ InFlight(i) = 1 <=> pc[i] = "invoking")
    /\ [][\A i \in Targets :
             (invocations'[i] # invocations[i] \/ attempt'[i] # attempt[i]) =>
                 /\ invocations'[i] = invocations[i] + 1
                 /\ attempt'[i] = attempt[i] + 1
                 /\ InFlight(i) = 0 /\ pc'[i] = "invoking" /\ sleep_s'[i] = None
                 /\ \/ attempt[i] = 0 /\ pc[i] = "queued"
                    \/ /\ attempt[i] >= 1 /\ pc[i] = "sleeping"
                       /\ sleep_s[i] # None /\ got[i] # None
                       /\ last_error_msg[i] # None /\ fut[i] = None]_vars

\* C22 witness: two targets run side by side, each in its second attempt
\* after its first one failed.
C22_Witness ==
    /\ Len(objects) = 2
    /\ \A i \in Targets :
          pc[i] = "invoking" /\ attempt[i] = 2 /\ last_error_msg[i] # None

----------------------------------------------------------------------------
\* The latest attempt of target i ran an active cost resolution: it reached
\* _fetch_generation_cost with calculate_costs set and a generation id.
ActiveResolution(i) ==
    /\ got[i] # None /\ responded[i] = got[i]
    /\ config.calculate_costs /\ Got(i).gen_id

\* C23: an active cost resolution issues between one and three lookups;
\* every lookup before the last one was answered 404, and the last one is
\* the third or was answered otherwise (an OK answer or another failure);
\* the delays slept are 0.5 s and 1.0 s, one between each two consecutive
\* lookups and none after the last.
C23_BoundedLookups ==
    \A i \in Targets :
        ActiveResolution(i) =>
            LET a == Got(i).answers
                n == lookup[i].requests
                s == lookup[i].sleeps
            IN /\ n \in 1..3
               /\ \A k \in 1..(n - 1) : a[k].status = "404"
               /\ n < 3 => a[n].status # "404"
               /\ s = SubSeq(<<5, 10>>, 1, n - 1)
               /\ \A k \in 1..(Len(s) - 1) : s[k] < s[k + 1]

\* C23 witness: the endpoint answered 404 three times: three lookups, two
\* sleeps.
C23_Witness ==
    \E i \in Targets :
        /\ ActiveResolution(i) /\ AttemptEnded(i)
        /\ \A k \in 1..3 : Got(i).answers[k].status = "404"
        /\ lookup[i] = [requests |-> 3, sleeps |-> <<5, 10>>]

----------------------------------------------------------------------------
\* The value a usage block supplies for a token count: that of the field f,
\* else that of the legacy field g; nothing if the block is not a dict.
Supplied(block, f, g) ==
    IF block.shape # "dict" THEN None
    ELSE IF block[f] # None THEN block[f] ELSE block[g]

\* The token count resolved in the fixed order: the primary block, else the
\* token_usage block.
Resolved(r, f, g) ==
    IF Supplied(r.usage_metadata, f, g) # None
    THEN Supplied(r.usage_metadata, f, g)
    ELSE Supplied(r.token_usage, f, g)

\* C24: the token usage an attempt reports for a response is resolved in a
\* fixed order: for each of input and output tokens the value the primary
\* usage_metadata block supplies (input_tokens/output_tokens, else
\* prompt_tokens/completion_tokens), else the value the token_usage block
\* supplies in the same way, else absent.  Stated of the attempts whose
\* usage resolution returned.
C24_UsageInFixedOrder ==
    \A i \in Targets :
        (AttemptEnded(i) /\ Got(i).kind = "text" /\ responded[i] = got[i]) =>
            /\ last[i].input_tokens = Resolved(Got(i), "input_tokens", "prompt_tokens")
            /\ last[i].output_tokens =
                   Resolved(Got(i), "output_tokens", "completion_tokens")

----------------------------------------------------------------------------
\* The image of the document is unavailable: its DocType has none, it fails
\* to materialize (the conversion raises or fails), or it fails to encode.
ImageUnavailable(f) == f.image_conv # "img" \/ ~f.encodes

\* The attachments of the request built for target i.
Attached(i) == {messages[i].attachments[k] : k \in DOMAIN messages[i].attachments}

\* C25: in image-attachment mode, when the image of the document is
\* unavailable, the run of a target (of a declared variant, its text, if
\* asked for, being available) does not fail in building the request: the
\* request is sent, without an image attachment.
C25_ImageUnavailableSkipped ==
    \A i \in Targets :
        (/\ "image" \in ModesOf(config) /\ ImageUnavailable(doc.file)
         /\ ~GetPromptRaises(objects[i])
         /\ "text" \in ModesOf(config) => doc.file.text_conv # "raise") =>
            /\ ~Faulted(i)
            /\ invocations[i] >= 1 => "image" \notin Attached(i)

----------------------------------------------------------------------------
\* The mode that enables an accessor of the document.
ModeOfAccessor(acc) ==
    IF acc = "text" THEN "text" ELSE IF acc = "image" THEN "image" ELSE "file"

\* C26: at every point of building the request of a target, the attachments
\* put together so far are of kinds whose mode is in file_input_modes, each
\* kind at most once and the image before the file; and every accessor of
\* the document read so far (text, image, binary) is one whose mode is
\* enabled.
C26_AttachmentsFollowModes ==
    \A i \in Targets :
        /\ Attached(i) \subseteq ({"image", "file"} \cap ModesOf(config))
        /\ messages[i].attachments \in {<<>>, <<"image">>, <<"file">>, <<"image", "file">>}
        /\ messages[i].text # None => "text" \in ModesOf(config)
        /\ \A k \in DOMAIN messages[i].reads :
              ModeOfAccessor(messages[i].reads[k][1]) \in ModesOf(config)

\* C26 witness: with the three modes enabled a request was sent that carries
\* the text, the image and the file, in that order, while with the same
\* configuration another target is still being built.
C26_Witness ==
    /\ ModesOf(config) = {"text", "image", "file"}
    /\ \E i \in Targets :
          /\ invocations[i] >= 1
          /\ messages[i].text = Some("t")
          /\ messages[i].attachments = <<"image", "file">>
    /\ \E j \in Targets : pc[j] \in {"text", "image", "encode", "file"}

----------------------------------------------------------------------------
\* Target i is of one of the declared variants.
Declared(i) == objects[i].kind \in {"table", "string"}

\* C27: a target of an undeclared variant never gets a model invocation or
\* an attempt, and at the return of extract_objects its result is a failed
\* one, while every target of a declared variant has run to its own end (a
\* success, or a failure after all its attempts) and has its own result
\* stored.
C27_UndeclaredVariantFatalForTargetOnly ==
    \A i \in Targets :
        /\ ~Declared(i) =>
              /\ invocations[i] = 0 /\ attempt[i] = 0
              /\ pc[i] \in {"queued", "fault"}
              /\ Returned =>
                    /\ ~ret[1].results[objects[i].name].success
                    /\ ret[1].results[objects[i].name].extracted_data = None
        /\ (Declared(i) /\ Returned) =>
              /\ \/ Succeeded(i) /\ invocations[i] = attempt[i] /\ attempt[i] >= 1
                 \/ Exhausted(i) /\ invocations[i] = Max(1, config.max_retries)
              /\ ret[1].results[objects[i].name] = RunResult(i)

\* C27 witness: of two targets sharing one worker the first is of an
\* undeclared variant and failed; the second succeeded at its second attempt.
C27_Witness ==
    /\ Returned /\ Len(objects) = 2 /\ config.parallel_requests = 1
    /\ ~Declared(1) /\ Faulted(1) /\ ~ret[1].results[objects[1].name].success
    /\ Declared(2) /\ Succeeded(2) /\ attempt[2] = 2
    /\ ret[1].results[objects[2].name].success

----------------------------------------------------------------------------
\* The values the accessor acc has returned to the targets so far.
Returns(acc) ==
    UNION {{messages[i].reads[k][2] :
               k \in {n \in DOMAIN messages[i].reads : messages[i].reads[n][1] = acc}} :
           i \in Targets}

\* C28: the text and the image of the document are computed lazily and
\* cached after the first call: over the accesses made so far, by one worker
\* or by several, each underlying conversion has run at most once and every
\* access to one accessor has returned the same value.  Stated of the
\* documents whose conversions succeed and give a text and an image.
C28_ConvertedAtMostOnce ==
    (doc.file.text_conv \in {"t", "na"} /\ doc.file.image_conv \in {"img", "na"}) =>
        /\ doc.text_runs <= 1
        /\ doc.image_runs <= 1
        /\ Cardinality(Returns("text")) <= 1
        /\ Cardinality(Returns("image")) <= 1

----------------------------------------------------------------------------
\* The state of the document: its file and its two caches.
DocState == [file |-> doc.file, text_data |-> doc.text_data, image_data |-> doc.image_data]

\* C29 as stated: during extract_objects the document and the configuration
\* are only read: no step changes the state of the document or the
\* configuration.
C29_DocumentOnlyRead ==
    [][DocState' = DocState /\ config' = config]_vars

\* A step of the run of target i, and a step that belongs to no run
\* (submitting, collecting, returning).
StepOf(i) == pc'[i] # pc[i]

\* C29: during extract_objects the configuration and the file of the
\* document are only read; the state of the document changes only by the
\* filling of a cache: the text cache, by a worker building a request in
\* text mode that found it unfilled, with the text of the file; the image
\* cache likewise in image mode; with neither mode enabled the document is as
\* it was constructed.  What is put together for one target is written by
\* the steps of that target's run alone, which write nothing of another's.
C29_OnlyCachesWritten ==
    /\ []((ModesOf(config) \cap {"text", "image"} = {}) =>
             DocState = [file |-> doc.file, text_data |-> "", image_data |-> None])
    /\ [][/\ config' = config /\ doc'.file = doc.file
          /\ doc'.text_data # doc.text_data =>
                /\ "text" \in ModesOf(config)
                /\ doc.text_data = "" /\ doc'.text_data = doc.file.text_conv
                /\ \E i \in Targets : pc[i] = "text_convert" /\ StepOf(i)
          /\ doc'.image_data # doc.image_data =>
                /\ "image" \in ModesOf(config)
                /\ doc.image_data = None /\ doc'.image_data = Some(doc.file.image_conv)
                /\ \E i \in Targets : pc[i] = "image_convert" /\ StepOf(i)
          /\ \A i \in Targets :
                messages'[i] # messages[i] =>
                    /\ StepOf(i)
                    /\ \A j \in Targets \ {i} : ~StepOf(j) /\ messages'[j] = messages[j]]_vars

\* C29 witness: one worker filled the text cache and another, having found
\* it filled, was given the cached text; both requests were sent.
C29_Witness ==
    /\ doc.text_data = "t" /\ doc.text_runs = 1
    /\ \E i, j \in Targets :
          /\ i # j
          /\ messages[i].text = Some("t") /\ messages[j].text = Some("t")
          /\ invocations[i] >= 1 /\ invocations[j] >= 1

----------------------------------------------------------------------------
\* C30 as stated: get_config(key) resolves with a fixed priority: the
\* environment variable named key wins over everything; otherwise a
\* top-level key of the file config; otherwise the dotted-path lookup;
\* otherwise an occurrence found by deep search; otherwise None.  A lower
\* source is used only when every higher one has no value for the key, and
\* every call gives a value or None.
FileConfig == IF settings.file.state = "loaded" THEN settings.file.data ELSE <<>>
InEnviron == settings.environ # None
AtTopLevel == \E k \in DOMAIN FileConfig : FileConfig[k].path[1] = settings.key.name
AtDottedPath ==
    \E k \in DOMAIN FileConfig :
        /\ IsPrefix(settings.key.parts, FileConfig[k].path)
        /\ ~(FileConfig[k].path = settings.key.parts /\ FileConfig[k].value = "null")
Occurrence(p) ==
    /\ p # <<>>
    /\ p[Len(p)] = settings.key.name
    /\ \E k \in DOMAIN FileConfig :
          /\ IsPrefix(p, FileConfig[k].path)
          /\ ~(FileConfig[k].path = p /\ FileConfig[k].value = "null")
\* The search reaches an occurrence unless a dict above its own holds the key.
Visible(p) ==
    \A n \in 0..(Len(p) - 2) : ~HasNode(FileConfig, SubSeq(p, 1, n) \o <<settings.key.name>>)
PriorityOf(r) ==
    /\ InEnviron => r.source = "env" /\ r.outcome = "value"
    /\ (~InEnviron /\ AtTopLevel) =>
          /\ r.source = "top"
          /\ r.outcome = "value" => r.at = <<settings.key.name>>
    /\ (~InEnviron /\ ~AtTopLevel /\ AtDottedPath) =>
          r = [outcome |-> "value", source |-> "dot", at |-> settings.key.parts]
    /\ r.source = "env" => InEnviron
    /\ r.source = "top" => ~InEnviron /\ AtTopLevel
    /\ r.source = "dot" => ~InEnviron /\ ~AtTopLevel /\ AtDottedPath
    /\ r.source = "deep" =>
          /\ ~InEnviron /\ ~AtTopLevel /\ ~AtDottedPath
          /\ r.outcome = "value" /\ Occurrence(r.at) /\ Visible(r.at)
    /\ r.source = "none" =>
          /\ ~InEnviron /\ ~AtTopLevel /\ ~AtDottedPath
          /\ r.outcome = "none"
          /\ ~\E k \in DOMAIN FileConfig :
                \E n \in 1..Len(FileConfig[k].path) :
                    /\ Occurrence(SubSeq(FileConfig[k].path, 1, n))
                    /\ Visible(SubSeq(FileConfig[k].path, 1, n))
C30_FixedPriority ==
    settings.value # None =>
        /\ settings.value[1].outcome \in {"value", "none"}
        /\ PriorityOf(settings.value[1])


----------------------------------------------------------------------------
\* C31 as stated: get_config returns the configuration value, or None when
\* the key is found in no source; a missing key is reported as None, never
\* as an exception.
InNoSource ==
    /\ ~InEnviron
    /\ ~\E k \in DOMAIN FileConfig :
          \E n \in 1..Len(FileConfig[k].path) :
              \/ FileConfig[k].path[n] = settings.key.name
              \/ SubSeq(FileConfig[k].path, 1, n) = settings.key.parts
C31_MissingKeyIsNone ==
    settings.value # None =>
        /\ settings.value[1].outcome # "raise"
        /\ InNoSource => settings.value[1].outcome = "none"

----------------------------------------------------------------------------
\* C32 as stated: after any number of calls of setup_logging, sequential or
\* concurrent from several threads, the root logger has received the console
\* handler exactly once, and the file handler exactly once (at most once
\* where the log file cannot be set up).
Received(kind) == Cardinality({n \in DOMAIN logging.handlers : logging.handlers[n] = kind})
SomeCallReturned == \E t \in LogThreads : logging.calls[t] > 0
C32_HandlersAddedOnce ==
    SomeCallReturned =>
        /\ Received("console") = 1
        /\ Received("file") = IF logging.file_ok THEN 1 ELSE 0

----------------------------------------------------------------------------
\* C33: a max_retries that is zero, negative or None gives one attempt: no
\* target sees a second model invocation, and a target whose only attempt
\* fails ends failed after exactly one.  A parallel_requests that is zero,
\* negative or None gives a pool of one worker: never two runs in progress.
\* extract_objects still processes every target: it returns only when each
\* has run to its end and has its entry in the result set.
NotPositive(f) == IsNone(config, f) \/ config[f] <= 0
C33_ClampedToOne ==
    /\ NotPositive("max_retries") =>
          \A i \in Targets :
              /\ invocations[i] <= 1
              /\ Exhausted(i) => invocations[i] = 1
    /\ NotPositive("parallel_requests") =>
          Cardinality({i \in Targets : pc[i] \notin {"queued", "done", "fault"}}) <= 1
    /\ Returned =>
          /\ \A i \in Targets : pc[i] \in {"done", "fault"}
          /\ DOMAIN ret[1].results = NamesOf(objects)

\* C33 witness: with max_retries and parallel_requests both None, or both
\* negative, extract_objects has returned for two targets, one failed after
\* its single invocation.
C33_Witness ==
    /\ \/ config.none = {"max_retries", "parallel_requests"}
       \/ (config.none = {} /\ config.max_retries < 0 /\ config.parallel_requests < 0)
    /\ Returned
    /\ Len(objects) >= 2
    /\ \E i \in Targets : Exhausted(i) /\ invocations[i] = 1

----------------------------------------------------------------------------
\* C34: if every model invocation and every cost lookup returns or raises,
\* every target run reaches a terminal state and extract_objects returns,
\* whatever the number of targets, the pool size and the pattern of failures.
AllTerminal == \A i \in Targets : pc[i] \in Terminal
C34_Terminates == <>(AllTerminal /\ Returned)

\* C34 witness: extract_objects has returned for more targets than the pool
\* has workers, one of them having failed on every one of several attempts.
C34_Witness ==
    /\ Returned
    /\ AllTerminal
    /\ Len(objects) > MaxWorkersOf(config)
    /\ \E i \in Targets : Exhausted(i) /\ invocations[i] = MaxRetriesOf(config) /\ invocations[i] > 1

----------------------------------------------------------------------------
\* C35 as stated: with calculate_costs on, every attempt whose model call
\* returns a response with a generation identifier issues its cost lookup
\* (before the content is parsed, so also when it then fails to parse); an
\* attempt whose model call raised issues none; no attempt issues more than
\* three, so that a target issues at most 3 * max_retries of them.
AttemptEnds(i) == pc[i] = "invoking" /\ pc'[i] # "invoking"
C35_LookupPerIdentifiedAttempt ==
    /\ [][\A i \in Targets :
            AttemptEnds(i) =>
                LET r == Response(got'[i][1])
                IN /\ (config.calculate_costs /\ r.kind = "text" /\ r.gen_id)
                          => lookup'[i].requests >= 1
                   /\ (~config.calculate_costs \/ r.kind = "raise" \/ ~r.gen_id)
                          => lookup'[i].requests = 0
                   /\ lookup'[i].requests <= 3
                   /\ 3 * invocations'[i] <= 3 * Max(1, config.max_retries)]_vars

----------------------------------------------------------------------------
\* C36: when a target succeeds on an attempt after the first, the tokens and
\* the cost of its result are those of that attempt alone, read from its
\* response and its cost lookup; nothing of the failed attempts is added.
C36_UsageOfLastAttemptOnly ==
    \A i \in Targets :
        (Succeeded(i) /\ attempt[i] > 1) =>
            LET r == Response(got[i][1])
                res == fut[i][1].result[1]
            IN /\ res.input_tokens = ParseTokenUsage(r).input_tokens
               /\ res.output_tokens = ParseTokenUsage(r).output_tokens
               /\ res.cost = CostResolution(config, r).cost

\* C36 witness: after a failed first attempt the second succeeded with
\* cost calculation on, its result carrying tokens and a cost.
C36_Witness ==
    \E i \in Targets :
        /\ Succeeded(i) /\ attempt[i] = 2 /\ invocations[i] = 2
        /\ config.calculate_costs
        /\ fut[i][1].result[1].input_tokens = Some(3)
        /\ fut[i][1].result[1].cost = Some(1)

----------------------------------------------------------------------------
\* C37: every ExtractionResult, as produced by a run and as stored in the
\* result set, is well formed.  If success is false, extracted_data is
\* absent and the message is not empty; after exhausted attempts it says how
\* the last attempt failed.  If success is true, the message is "Extraction
\* successful" and extracted_data is the parsed content of the response of
\* the attempt that ended the run.
FailureOfLastAttempt(i) ==
    LET a == AttemptOf(config, got[i][1])
    IN IF a.saves /\ ~a.parses THEN "Response was not valid JSON"
       ELSE "Model invocation failed"
WellFormedFailure(res) == res.extracted_data = None /\ res.message # ""
WellFormedSuccess(res) == res.message = "Extraction successful"
C37_ResultsWellFormed ==
    /\ \A i \in Targets :
          fut[i] # None =>
              /\ ~RunResult(i).success =>
                    /\ WellFormedFailure(RunResult(i))
                    /\ Exhausted(i) => RunResult(i).message = FailureOfLastAttempt(i)
              /\ RunResult(i).success =>
                    /\ WellFormedSuccess(RunResult(i))
                    /\ JsonLoads(RunResult(i).extracted_data[1])
                    /\ RunResult(i).extracted_data[1] =
                           CleanResponseContent(Response(got[i][1]))
    /\ Returned =>
          \A n \in DOMAIN ret[1].results :
              IF ret[1].results[n].success
              THEN WellFormedSuccess(ret[1].results[n])
              ELSE WellFormedFailure(ret[1].results[n])

\* C37 witness: extract_objects has returned the failed result of a target
\* whose last attempt gave content that is not JSON.
C37_Witness ==
    /\ Returned
    /\ \E i \in Targets :
          /\ Exhausted(i)
          /\ RunResult(i).message = "Response was not valid JSON"
          /\ ret[1].results[objects[i].name] = RunResult(i)

----------------------------------------------------------------------------
\* C38: with an empty list of targets nothing is submitted, no model
\* invocation and no cost lookup is issued, and extract_objects returns an
\* empty result set with success = true and no message.
C38_EmptyListReturnsEmptySuccess ==
    objects = <<>> =>
        /\ submitted = 0
        /\ \A i \in DOMAIN invocations : invocations[i] = 0
        /\ \A i \in DOMAIN lookup : lookup[i].requests = 0
        /\ \A i \in DOMAIN got : got[i] = None
        /\ Returned =>
              /\ DOMAIN ret[1].results = {}
              /\ ret[1].success
              /\ ret[1].message = None

\* C38 witness: extract_objects has returned for an empty list.
C38_Witness == objects = <<>> /\ Returned /\ collected = {}

====
